---- MODULE Spec2Model ----
(***************************************************************************)
(* Model of the go-acme client: the certificate registry with its waiters  *)
(* (Client.Certificate, WaitForCertificate, storeCertificate), the         *)
(* per-certificate worker (CertificateWorker.main and the steps of an      *)
(* order), RequestCertificate and Client.Stop.                             *)
(*                                                                         *)
(* Every goroutine is a process with a program counter; a step of the      *)
(* model is one step of one goroutine between two synchronisation points   *)
(* (mutex acquisition, channel operation, HTTP exchange, data store call). *)
(* Time is abstracted: a timer may fire at any moment after it is armed,   *)
(* and a computed renewal time lies either after or not after "now".       *)
(***************************************************************************)
EXTENDS Naturals, Sequences, FiniteSets, TLC

\* ------------------------------------------------------------------ bounds

\* Number of certificate chains the ACME server issues in a run: once reached
\* the server only refuses (a behaviour a server is free to have at any time).
MaxIssued == 1

\* ----------------------------------------------------------------- domains

Workers == {"w1"}
Waiters == {"u1", "u2"}
Names == {"n1"}
IdLists == {<<"a.example">>, <<"b.example">>}
Validities == {0, 1}

\* The arguments RequestCertificate is called with: those of the stored
\* certificate, other identifiers, another validity.
Requests ==
  {[ids |-> <<"a.example">>, validity |-> 1],
   [ids |-> <<"b.example">>, validity |-> 1],
   [ids |-> <<"a.example">>, validity |-> 0]}

NilKey == [src |-> "nil", owner |-> "", serial |-> 0]
StoredKey == [src |-> "stored", owner |-> "", serial |-> 0]
StoredCert == [src |-> "stored", serial |-> 0]

\* A nil *CertificateData.
Nil == [name |-> "", ids |-> <<>>, validity |-> 0, key |-> NilKey, chain |-> <<>>]

\* The certificate a previous run left in the data store.
StoredData(n) ==
  [name |-> n, ids |-> <<"a.example">>, validity |-> 1,
   key |-> StoredKey, chain |-> <<StoredCert>>]

NoEvent == [kind |-> "none", data |-> Nil, cause |-> ""]
CertEvent(d) == [kind |-> "cert", data |-> d, cause |-> ""]
ErrEvent(c) == [kind |-> "err", data |-> Nil, cause |-> c]

Min(a, b) == IF a < b THEN a ELSE b

VARIABLES
  \* Client
  dataStore,               \* Cfg.DataStore: name -> CertificateData or Nil
  certificates,            \* c.certificates
  certificatesMutex,       \* holder of c.certificatesMutex ("" when free)
  certificateWaiters,      \* c.certificateWaiters: name -> sequence of channels
  certificateWaitersMutex, \* holder of c.certificateWaitersMutex ("" when free)
  stopChan,                \* c.stopChan: "open" or "closed"
  wg,                      \* c.wg counter
  stopPc,                  \* Client.Stop: "idle", "wait", "returned"
  issued,                  \* chains issued by the server so far
  waiters,                 \* the WaitForCertificate calls, one channel each
  workers                  \* the CertificateWorker goroutines

vars == <<dataStore, certificates, certificatesMutex, certificateWaiters,
          certificateWaitersMutex, stopChan, wg, stopPc, issued, waiters, workers>>

\* The nonce pool and the callers of sendRequest.
VARIABLES
  directoryURI,   \* c.Cfg.DirectoryURI: "pebble" or "other"
  nonces,         \* c.nonces
  serverNonces,   \* nonces issued by the server so far; nonce k is the k-th
  signCount,      \* nonce -> number of requests it was signed into
  callers         \* the goroutines inside sendRequest

nvars == <<directoryURI, nonces, serverNonces, signCount, callers>>

\* A polling loop of the order protocol.
VARIABLES
  poll            \* the goroutine inside a waitFor... loop

pvars == <<poll>>

\* No polling loop is running.
PollingIdle == poll = <<>>

\* The HTTP-01 responder and the goroutines inside solveChallenge.
VARIABLES
  challenges,     \* s.challenges: the token set of the responder
  solvers,        \* the workers inside solveChallenge
  reply           \* the last response of the responder

svars == <<challenges, solvers, reply>>

\* No token is registered, no challenge is being solved.
SolverIdle == challenges = {} /\ solvers = <<>> /\ reply = <<>>

\* The renewal time of a worker that holds a certificate.
VARIABLES renewal

rvars == <<renewal>>

\* No renewal time is being computed.
RenewalIdle == renewal = <<>>

\* The calls of RequestCertificate and the worker each of them started.
VARIABLES requests

qvars == <<requests>>

\* RequestCertificate was never called.
RequestsIdle == requests = <<>>

\* Client.Start: the account of the data store and the clients that start.
VARIABLES
  accountFile,     \* the account of the data store, as StoreAccountData wrote it
  serverAccounts,  \* the accounts the server created
  clients          \* the clients in Start

avars == <<accountFile, serverAccounts, clients>>

\* The data store holds no account.
NoFile == [uri |-> 0, private_key_data |-> <<>>]

\* No client was started.
AccountsIdle == accountFile = NoFile /\ serverAccounts = 0 /\ clients = <<>>

\* One order of a worker, step by step.
VARIABLES ord

ovars == <<ord>>

\* No order is followed step by step.
OrderIdle == ord = <<>>

\* The variables the steps of a component leave alone: those of the others.

VARIABLES validation   \* a call of validateAuthorization

cvars == <<validation>>

\* No call of validateAuthorization is running.
ValidationIdle == validation = <<>>

VARIABLES response   \* a response in sendRequestWithNonce

hvars == <<response>>

\* No response is being handled.
ResponseIdle == response = <<>>

otherThanLifecycle == <<nvars, pvars, svars, rvars, qvars, avars, ovars, cvars, hvars>>
otherThanNonces == <<vars, pvars, svars, rvars, qvars, avars, ovars, cvars, hvars>>
otherThanPolling == <<nvars, svars, rvars, qvars, avars, ovars, cvars, hvars>>
otherThanSolver == <<nvars, pvars, rvars, qvars, avars, ovars, cvars, hvars>>
otherThanRenewal == <<nvars, pvars, svars, qvars, avars, ovars, cvars, hvars>>
otherThanRequests == <<nvars, pvars, svars, rvars, avars, ovars, cvars, hvars>>
otherThanAccounts == <<nvars, pvars, svars, rvars, qvars, ovars, cvars, hvars>>
otherThanOrder == <<nvars, pvars, svars, rvars, qvars, avars, cvars, hvars>>
otherThanValidation == <<nvars, pvars, svars, rvars, qvars, avars, ovars, hvars>>
otherThanResponse == <<nvars, pvars, svars, rvars, qvars, avars, ovars, cvars>>

\* ------------------------------------------------------------ pure helpers

ContainsCertificate(d) == d.key # NilKey /\ Len(d.chain) > 0

\* The snapshot handed to the registry and to the consumer, and what is left
\* in the worker's own data: identifiers cloned, private key shared, chain
\* moved out of the worker's data.
extractCopy(d) ==
  [copy |-> [name |-> d.name, ids |-> d.ids, validity |-> d.validity,
             key |-> d.key, chain |-> d.chain],
   rest |-> [d EXCEPT !.chain = <<>>]]

\* Client.Certificate: a read of the map under the read lock.
Certificate(n) == certificates[n]

RemoveWaiter(chs, ch) == SelectSeq(chs, LAMBDA c : c # ch)

SeqToSet(s) == {s[i] : i \in 1..Len(s)}

\* ---------------------------------------------------------------- initial

InitWaiter ==
  [pc |-> "idle", name |-> "", ctx |-> "live", ret |-> Nil,
   viaMap |-> FALSE, viaChan |-> FALSE, left |-> "", closed |-> 0]

InitWorker ==
  [pc |-> "idle", ctx |-> "live", certData |-> Nil,
   args |-> Nil, loaded |-> Nil,
   renewalAfter |-> FALSE, retryDelay |-> 0, err |-> "",
   snap |-> Nil, sendList |-> <<>>, sendIdx |-> 0,
   pending |-> NoEvent, next |-> "",
   closed |-> 0, emitted |-> <<>>, received |-> <<>>,
   orders |-> 0, waits |-> 0, regBefore |-> {}, faulty |-> FALSE,
   published |-> 0]

\* The client before any request: no nonce, no caller in sendRequest.
Callers == {"r1", "r2"}

InitCaller ==
  [pc |-> "idle", i |-> 0, nonce |-> 0, taken |-> 0, outcomes |-> <<>>,
   used |-> <<>>, result |-> "", lastBadNonce |-> FALSE, calls |-> 0]

NoncesIdle ==
  /\ directoryURI = "other"
  /\ nonces = <<>>
  /\ serverNonces = 0
  /\ signCount = <<>>
  /\ callers = [r \in Callers |-> InitCaller]

\* NewClient: empty registry, no waiter, open stop channel. The data store
\* holds, for each name, nothing or the certificate of a previous run.
Init ==
  /\ ResponseIdle
  /\ ValidationIdle
  /\ OrderIdle
  /\ AccountsIdle
  /\ RequestsIdle
  /\ RenewalIdle
  /\ dataStore \in [Names -> {Nil}] \cup {[n \in Names |-> StoredData(n)]}
  /\ certificates = [n \in Names |-> Nil]
  /\ certificatesMutex = ""
  /\ certificateWaiters = [n \in Names |-> <<>>]
  /\ certificateWaitersMutex = ""
  /\ stopChan = "open"
  /\ wg = 0
  /\ stopPc = "idle"
  /\ issued = 0
  /\ waiters = [u \in Waiters |-> InitWaiter]
  /\ workers = [w \in Workers |-> InitWorker]
  /\ NoncesIdle
  /\ PollingIdle
  /\ SolverIdle

\* The client without certificate activity.
LifecycleIdle ==
  /\ dataStore = [n \in Names |-> Nil]
  /\ certificates = [n \in Names |-> Nil]
  /\ certificatesMutex = ""
  /\ certificateWaiters = [n \in Names |-> <<>>]
  /\ certificateWaitersMutex = ""
  /\ stopChan = "open"
  /\ wg = 0
  /\ stopPc = "idle"
  /\ issued = 0
  /\ waiters = [u \in Waiters |-> InitWaiter]
  /\ workers = [w \in Workers |-> InitWorker]

\* ------------------------------------------------------ WaitForCertificate

\* A fast-path condition that never finds an entry.
RegistryHoldsNever(n) == FALSE

\* A select whose stop and ctx cases are always ready.
SelectReadyAlways(u, kind) == TRUE

\* The condition of the fast path: the registry holds an entry for the name.
RegistryHolds(n) == certificates[n] # Nil

\* WaitForCertificate, entry: c.certificatesMutex.Lock().
WaitLock(u, n) ==
  /\ waiters[u].pc = "idle"
  /\ certificatesMutex = ""
  /\ certificatesMutex' = u
  /\ waiters' = [waiters EXCEPT ![u].pc = "locked", ![u].name = n]
  /\ UNCHANGED otherThanLifecycle /\ UNCHANGED <<dataStore, certificates, certificateWaiters,
                 certificateWaitersMutex, stopChan, wg, stopPc, issued, workers>>

\* WaitForCertificate, fast path: the map holds an entry; unlock and return it.
WaitFast(u) ==
  /\ waiters[u].pc = "locked"
  /\ RegistryHolds(waiters[u].name)
  /\ certificatesMutex' = ""
  /\ waiters' = [waiters EXCEPT ![u].pc = "done",
                                ![u].ret = certificates[waiters[u].name],
                                ![u].viaMap = TRUE]
  /\ UNCHANGED otherThanLifecycle /\ UNCHANGED <<dataStore, certificates, certificateWaiters,
                 certificateWaitersMutex, stopChan, wg, stopPc, issued, workers>>

\* addCertificateWaiter: append a new channel to the list of the name.
addCertificateWaiter(chs, n, ch) == [chs EXCEPT ![n] = Append(@, ch)]

\* A removeCertificateWaiter that leaves the list as it is.
removeCertificateWaiterNone(chs, n, ch) == chs

\* removeCertificateWaiter: delete the channel from the list of the name.
removeCertificateWaiter(chs, n, ch) == [chs EXCEPT ![n] = RemoveWaiter(@, ch)]

\* WaitForCertificate, slow path: no entry; register a waiter (under the
\* waiter lock), unlock the registry and enter the select.
WaitRegister(u) ==
  /\ waiters[u].pc = "locked"
  /\ ~RegistryHolds(waiters[u].name)
  /\ certificateWaitersMutex = ""
  /\ certificateWaiters' = addCertificateWaiter(certificateWaiters, waiters[u].name, u)
  /\ certificatesMutex' = ""
  /\ waiters' = [waiters EXCEPT ![u].pc = "select"]
  /\ UNCHANGED otherThanLifecycle /\ UNCHANGED <<dataStore, certificates, certificateWaitersMutex,
                 stopChan, wg, stopPc, issued, workers>>

\* Readiness of the cases <-c.stopChan and <-ctx.Done() of the select.
SelectReady(u, kind) ==
  IF kind = "stop" THEN stopChan = "closed" ELSE waiters[u].ctx = "done"

\* The select of WaitForCertificate, case <-c.stopChan.
WaitStop(u) ==
  /\ waiters[u].pc = "select"
  /\ SelectReady(u, "stop")
  /\ waiters' = [waiters EXCEPT ![u].pc = "leave", ![u].left = "stop"]
  /\ UNCHANGED otherThanLifecycle /\ UNCHANGED <<dataStore, certificates, certificatesMutex, certificateWaiters,
                 certificateWaitersMutex, stopChan, wg, stopPc, issued, workers>>

\* The select of WaitForCertificate, case <-ctx.Done().
WaitCtxDone(u) ==
  /\ waiters[u].pc = "select"
  /\ SelectReady(u, "ctx")
  /\ waiters' = [waiters EXCEPT ![u].pc = "leave", ![u].left = "ctx"]
  /\ UNCHANGED otherThanLifecycle /\ UNCHANGED <<dataStore, certificates, certificatesMutex, certificateWaiters,
                 certificateWaitersMutex, stopChan, wg, stopPc, issued, workers>>

\* The deferred function, first half: removeCertificateWaiter(name, ch).
WaitRemove(u) ==
  /\ waiters[u].pc = "leave"
  /\ certificateWaitersMutex = ""
  /\ certificateWaiters' =
       removeCertificateWaiter(certificateWaiters, waiters[u].name, u)
  /\ waiters' = [waiters EXCEPT ![u].pc = "close"]
  /\ UNCHANGED otherThanLifecycle /\ UNCHANGED <<dataStore, certificates, certificatesMutex,
                 certificateWaitersMutex, stopChan, wg, stopPc, issued, workers>>

\* The deferred function, second half: close(ch); the call returns.
WaitClose(u) ==
  /\ waiters[u].pc = "close"
  /\ waiters' = [waiters EXCEPT ![u].pc = "done", ![u].closed = @ + 1]
  /\ UNCHANGED otherThanLifecycle /\ UNCHANGED <<dataStore, certificates, certificatesMutex, certificateWaiters,
                 certificateWaitersMutex, stopChan, wg, stopPc, issued, workers>>

\* The caller's context is cancelled or reaches its deadline.
CancelWaiter(u) ==
  /\ waiters[u].pc = "select"
  /\ waiters[u].ctx = "live"
  /\ waiters' = [waiters EXCEPT ![u].ctx = "done"]
  /\ UNCHANGED otherThanLifecycle /\ UNCHANGED <<dataStore, certificates, certificatesMutex, certificateWaiters,
                 certificateWaitersMutex, stopChan, wg, stopPc, issued, workers>>

\* ------------------------------------------------------ RequestCertificate

\* Start data that is always fresh, whatever was loaded.
RequestCertificateFresh(loaded, n, ids, v) ==
  [name |-> n, ids |-> ids, validity |-> v, key |-> NilKey, chain |-> <<>>]

\* Start data that is the loaded certificate whenever there is one.
RequestCertificateLoaded(loaded, n, ids, v) ==
  IF loaded = Nil
  THEN [name |-> n, ids |-> ids, validity |-> v, key |-> NilKey, chain |-> <<>>]
  ELSE loaded

\* The data the worker starts from: the loaded certificate when its
\* identifiers and validity are those requested, else fresh data.
RequestCertificateData(loaded, n, ids, v) ==
  LET sameIds == loaded # Nil /\ loaded.ids = ids
      sameValidity == loaded # Nil /\ loaded.validity = v
  IN IF loaded = Nil \/ ~sameIds \/ ~sameValidity
     THEN [name |-> n, ids |-> ids, validity |-> v, key |-> NilKey, chain |-> <<>>]
     ELSE loaded

\* RequestCertificate and startCertificateWorker: load, choose the data,
\* wg.Add(1), go w.main().
RequestCertificate(w, n, ids, v) ==
  /\ workers[w].pc = "idle"
  /\ stopPc = "idle"
  /\ wg' = wg + 1
  /\ workers' = [workers EXCEPT
       ![w].pc = "main",
       ![w].certData = RequestCertificateData(dataStore[n], n, ids, v),
       ![w].args = [Nil EXCEPT !.name = n, !.ids = ids, !.validity = v],
       ![w].loaded = dataStore[n]]
  /\ UNCHANGED otherThanLifecycle /\ UNCHANGED <<dataStore, certificates, certificatesMutex, certificateWaiters,
                 certificateWaitersMutex, stopChan, stopPc, issued, waiters>>

\* -------------------------------------------------- CertificateWorker.main

\* A worker step that touches only the worker's own state.
Local(w, rec) ==
  /\ workers' = [workers EXCEPT ![w] = rec]
  /\ UNCHANGED otherThanLifecycle /\ UNCHANGED <<dataStore, certificates, certificatesMutex, certificateWaiters,
                 certificateWaitersMutex, stopChan, wg, stopPc, issued, waiters>>

\* Deferred calls without close(w.eventChan).
DeferredNoClose(step) ==
  CASE step = "recover" -> "wgDone"
    [] step = "close" -> "wgDone"
    [] step = "wgDone" -> "done"

\* The deferred calls of main, in the order they run: the recover function,
\* close(w.eventChan), w.Client.wg.Done().
Deferred(step) ==
  CASE step = "recover" -> "close"
    [] step = "close" -> "wgDone"
    [] step = "wgDone" -> "done"

\* main returns: the deferred recover function finds no panic.
Returned(rec) == [rec EXCEPT !.pc = Deferred("recover"), !.retryDelay = 0]

\* A panic that ends the goroutine where it was raised: no deferred call runs.
PanickedUnrecovered(rec) ==
  [rec EXCEPT !.pc = "done", !.faulty = TRUE, !.retryDelay = 0]

\* A panic in main: the deferred recover function sends the error event.
Panicked(rec) ==
  [rec EXCEPT !.pc = "sendEvent", !.pending = ErrEvent("panic"),
              !.next = Deferred("recover"), !.faulty = TRUE, !.retryDelay = 0]

\* The head of the loop of main: wait when the renewal time is after now,
\* else start the retry loop with a delay of one second.
LoopHead(rec) ==
  IF rec.renewalAfter
  THEN [rec EXCEPT !.pc = "wait", !.waits = Min(@ + 1, 2)]
  ELSE [rec EXCEPT !.pc = "order", !.retryDelay = 1]

\* An onCertificateDataReady that sends the event without storing the copy.
ReadyUnstored(rec) ==
  LET x == extractCopy(rec.certData)
  IN [rec EXCEPT !.pc = "sendEvent", !.snap = x.copy, !.certData = x.rest,
                 !.pending = CertEvent(x.copy), !.next = "loop",
                 !.published = Min(@ + 1, MaxIssued + 1)]

\* onCertificateDataReady up to the call of storeCertificate: extractCopy
\* leaves the worker's data without chain.
Ready(rec) ==
  LET x == extractCopy(rec.certData)
  IN [rec EXCEPT !.pc = "storeLock", !.snap = x.copy, !.certData = x.rest,
                 !.regBefore = SeqToSet(certificateWaiters[x.copy.name])]

\* An order failure that is always retried.
OrderFailedRetry(rec, cause) ==
  [rec EXCEPT !.pc = "retryWait", !.faulty = TRUE, !.err = cause]

\* orderCertificate returned an error: without certificate the worker sends
\* the error and returns; with one it waits for the retry delay.
OrderFailed(rec, cause) ==
  IF ~ContainsCertificate(rec.certData)
  THEN [rec EXCEPT !.pc = "sendEvent", !.pending = ErrEvent(cause),
                   !.next = "return", !.faulty = TRUE, !.err = cause]
  ELSE [rec EXCEPT !.pc = "retryWait", !.faulty = TRUE, !.err = cause]

\* The causes an HTTP exchange can fail with.
HttpFailures(w) ==
  {"error"} \cup (IF workers[w].ctx = "done" THEN {"timeout"} ELSE {})

\* The causes a polling loop can fail with: those of its fetches, and those
\* of waitForVerification.
PollFailures(w) ==
  HttpFailures(w) \cup (IF stopChan = "closed" THEN {"interrupted"} ELSE {})

\* main, before the loop: a worker that starts with a certificate computes
\* its renewal time and publishes the certificate.
MainStart(w) ==
  /\ workers[w].pc = "main"
  /\ IF ContainsCertificate(workers[w].certData)
     THEN \E after \in BOOLEAN :
            Local(w, Ready([workers[w] EXCEPT !.renewalAfter = after]))
     ELSE Local(w, LoopHead([workers[w] EXCEPT !.renewalAfter = FALSE]))

\* wait(renewalTime.Sub(now)), case <-t.C.
RenewalTimer(w) ==
  /\ workers[w].pc = "wait"
  /\ Local(w, [workers[w] EXCEPT !.pc = "order", !.retryDelay = 1])

\* wait(...), cases <-w.Client.stopChan and <-w.ctx.Done(): main returns.
RenewalAbort(w) ==
  /\ workers[w].pc = "wait"
  /\ stopChan = "closed" \/ workers[w].ctx = "done"
  /\ Local(w, Returned(workers[w]))

\* orderCertificate: submitOrder succeeds.
SubmitOrder(w) ==
  /\ workers[w].pc = "order"
  /\ workers[w].ctx = "live"
  /\ Local(w, [workers[w] EXCEPT !.pc = "authz", !.orders = Min(@ + 1, 2)])

\* orderCertificate: submitOrder fails.
SubmitOrderFail(w) ==
  /\ workers[w].pc = "order"
  /\ \E cause \in HttpFailures(w) :
       Local(w, OrderFailed([workers[w] EXCEPT !.orders = Min(@ + 1, 2)], cause))

\* validateAuthorizations: every authorization of the order is validated.
ValidateAuthorizations(w) ==
  /\ workers[w].pc = "authz"
  /\ workers[w].ctx = "live"
  /\ Local(w, [workers[w] EXCEPT !.pc = "ready"])

\* validateAuthorizations fails (fetch, challenge, authorization).
ValidateAuthorizationsFail(w) ==
  /\ workers[w].pc = "authz"
  /\ \E cause \in PollFailures(w) : Local(w, OrderFailed(workers[w], cause))

\* validateAuthorizations panics (a challenge without the data of its type).
ValidateAuthorizationsPanic(w) ==
  /\ workers[w].pc = "authz"
  /\ Local(w, Panicked(workers[w]))

\* finalizeOrder generating a key for every order.
CertificateKeyFresh(w) == [src |-> "gen", owner |-> w, serial |-> issued + 1]

\* finalizeOrder without key generation.
CertificateKeyKept(w) == workers[w].certData.key

\* The private key finalizeOrder signs with: generated when the worker has none.
CertificateKey(w) ==
  IF workers[w].certData.key = NilKey
  THEN [src |-> "gen", owner |-> w, serial |-> issued]
  ELSE workers[w].certData.key

\* finalizeOrder: waitForOrderReady succeeds, the private key is there.
WaitForOrderReady(w) ==
  /\ workers[w].pc = "ready"
  /\ workers[w].ctx = "live"
  /\ Local(w, [workers[w] EXCEPT !.pc = "finalize",
                                  !.certData.key = CertificateKey(w)])

\* finalizeOrder: waitForOrderReady fails.
WaitForOrderReadyFail(w) ==
  /\ workers[w].pc = "ready"
  /\ \E cause \in PollFailures(w) : Local(w, OrderFailed(workers[w], cause))

\* finalizeOrder: the order is ready and GenerateCertificatePrivateKey fails.
GenerateKeyFail(w) ==
  /\ workers[w].pc = "ready"
  /\ workers[w].ctx = "live"
  /\ workers[w].certData.key = NilKey
  /\ Local(w, OrderFailed(workers[w], "error"))

\* finalizeOrder: CSR, finalize request, waitForOrderValid succeed.
FinalizeOrder(w) ==
  /\ workers[w].pc = "finalize"
  /\ workers[w].ctx = "live"
  /\ Local(w, [workers[w] EXCEPT !.pc = "download"])

\* finalizeOrder: one of them fails.
FinalizeOrderFail(w) ==
  /\ workers[w].pc = "finalize"
  /\ \E cause \in PollFailures(w) : Local(w, OrderFailed(workers[w], cause))

\* downloadCertificate: the chain is fetched and put in w.certData.
DownloadCertificate(w) ==
  /\ workers[w].pc = "download"
  /\ workers[w].ctx = "live"
  /\ issued < MaxIssued
  /\ issued' = issued + 1
  /\ workers' = [workers EXCEPT
       ![w].pc = "persist",
       ![w].certData.chain = <<[src |-> "server", serial |-> issued + 1]>>]
  /\ UNCHANGED otherThanLifecycle /\ UNCHANGED <<dataStore, certificates, certificatesMutex, certificateWaiters,
                 certificateWaitersMutex, stopChan, wg, stopPc, waiters>>

\* downloadCertificate: a body without PEM block decodes to an empty chain
\* without error.
DownloadEmptyChain(w) ==
  /\ workers[w].pc = "download"
  /\ workers[w].ctx = "live"
  /\ Local(w, [workers[w] EXCEPT !.pc = "persist", !.certData.chain = <<>>,
                                  !.faulty = TRUE])

\* downloadCertificate: the request fails.
DownloadCertificateFail(w) ==
  /\ workers[w].pc = "download"
  /\ \E cause \in HttpFailures(w) : Local(w, OrderFailed(workers[w], cause))

\* The worker after orderCertificate returned nil: the renewal time is
\* computed from the leaf certificate (a nil dereference without one), then
\* onCertificateDataReady.
Ordered(rec, after) ==
  IF Len(rec.certData.chain) = 0
  THEN Panicked(rec)
  ELSE Ready([rec EXCEPT !.renewalAfter = after, !.retryDelay = 0])

\* downloadCertificate: StoreCertificateData(w.certData) succeeds; the order
\* is complete.
PersistCertificate(w) ==
  /\ workers[w].pc = "persist"
  /\ dataStore' = [dataStore EXCEPT
                     ![workers[w].certData.name] = workers[w].certData]
  /\ \E after \in BOOLEAN :
       workers' = [workers EXCEPT ![w] = Ordered(workers[w], after)]
  /\ UNCHANGED otherThanLifecycle /\ UNCHANGED <<certificates, certificatesMutex, certificateWaiters,
                 certificateWaitersMutex, stopChan, wg, stopPc, issued, waiters>>

\* A downloadCertificate that ignores the error of StoreCertificateData.
PersistCertificateIgnored(w) ==
  /\ workers[w].pc = "persist"
  /\ \E after \in BOOLEAN : Local(w, Ordered(workers[w], after))

\* downloadCertificate: StoreCertificateData fails.
PersistCertificateFail(w) ==
  /\ workers[w].pc = "persist"
  /\ Local(w, OrderFailed(workers[w], "error"))

\* A select that takes the timer case whatever the other cases are.
TimerFiresAlways(w) == TRUE

\* wait: the timer case is taken when the timer fires before stopChan is
\* closed and before the context is done; the retry delay is a second or
\* more, and a closed channel is ready when the select starts.
TimerFires(w) == ~(stopChan = "closed" \/ workers[w].ctx = "done")

\* A retry loop that waits the same delay before every attempt.
NextRetryDelayFixed(d) == d

\* retryDelay = min(retryDelay*2, 60*time.Second), in seconds.
NextRetryDelay(d) == Min(d * 2, 60)

\* wait(retryDelay), case <-t.C: the delay doubles up to 60 s and the order
\* is tried again.
RetryTimer(w) ==
  /\ workers[w].pc = "retryWait"
  /\ TimerFires(w)
  /\ Local(w, [workers[w] EXCEPT !.pc = "order", !.err = "",
                                  !.retryDelay = NextRetryDelay(@)])

\* wait(retryDelay), cases <-w.Client.stopChan and <-w.ctx.Done().
RetryAbort(w) ==
  /\ workers[w].pc = "retryWait"
  /\ stopChan = "closed" \/ workers[w].ctx = "done"
  /\ Local(w, Returned(workers[w]))

\* ------------------------------------------------------- storeCertificate

\* storeCertificate without the write of the map.
StoreWriteSkipped(certs, d) == certs

\* The write of storeCertificate: c.certificates[name] = certData.
StoreWrite(certs, d) == [certs EXCEPT ![d.name] = d]

\* storeCertificate: c.certificatesMutex.Lock() and the write of the map.
StoreLock(w) ==
  /\ workers[w].pc = "storeLock"
  /\ certificatesMutex = ""
  /\ certificatesMutex' = w
  /\ certificates' = StoreWrite(certificates, workers[w].snap)
  /\ workers' = [workers EXCEPT ![w].pc = "storeWaiters"]
  /\ UNCHANGED otherThanLifecycle /\ UNCHANGED <<dataStore, certificateWaiters, certificateWaitersMutex,
                 stopChan, wg, stopPc, issued, waiters>>

\* The channels storeCertificate ranges over.
StoreTargets(chs, n) == chs[n]

\* storeCertificate: c.certificateWaitersMutex.Lock(); the range expression
\* is evaluated once.
StoreWaitersLock(w) ==
  /\ workers[w].pc = "storeWaiters"
  /\ certificateWaitersMutex = ""
  /\ certificateWaitersMutex' = w
  /\ workers' = [workers EXCEPT
       ![w].pc = "storeSend",
       ![w].sendList = StoreTargets(certificateWaiters, workers[w].snap.name),
       ![w].sendIdx = 1]
  /\ UNCHANGED otherThanLifecycle /\ UNCHANGED <<dataStore, certificates, certificatesMutex, certificateWaiters,
                 stopChan, wg, stopPc, issued, waiters>>

\* storeCertificate: ch <- certData on an unbuffered channel: the send
\* completes when the waiter is in its select and takes the receive case.
StoreSend(w) ==
  /\ workers[w].pc = "storeSend"
  /\ workers[w].sendIdx <= Len(workers[w].sendList)
  /\ LET u == workers[w].sendList[workers[w].sendIdx]
     IN /\ waiters[u].closed = 0
        /\ waiters[u].pc = "select"
        /\ waiters' = [waiters EXCEPT ![u].pc = "leave",
                                      ![u].ret = workers[w].snap,
                                      ![u].viaChan = TRUE]
        /\ workers' = [workers EXCEPT ![w].sendIdx = @ + 1]
  /\ UNCHANGED otherThanLifecycle /\ UNCHANGED <<dataStore, certificates, certificatesMutex, certificateWaiters,
                 certificateWaitersMutex, stopChan, wg, stopPc, issued>>

\* storeCertificate: both locks are released; onCertificateDataReady goes
\* on with sendEvent.
StoreUnlock(w) ==
  /\ workers[w].pc = "storeSend"
  /\ workers[w].sendIdx > Len(workers[w].sendList)
  /\ certificateWaitersMutex' = ""
  /\ certificatesMutex' = ""
  /\ workers' = [workers EXCEPT
       ![w].pc = "sendEvent",
       ![w].pending = CertEvent(workers[w].snap),
       ![w].next = "loop",
       ![w].published = Min(@ + 1, MaxIssued + 1)]
  /\ UNCHANGED otherThanLifecycle /\ UNCHANGED <<dataStore, certificates, certificateWaiters, stopChan, wg,
                 stopPc, issued, waiters>>

\* ------------------------------------------------------------- sendEvent

\* A sendEvent on a buffered channel: the consumer gets the event whichever
\* case ended the select.
SentBuffered(w, out) ==
  LET rec == [workers[w] EXCEPT
                !.pending = NoEvent, !.next = "",
                !.emitted = Append(@, [ev |-> workers[w].pending, out |-> out]),
                !.received = Append(@, workers[w].pending)]
  IN CASE workers[w].next = "loop" -> LoopHead(rec)
       [] workers[w].next = "return" -> Returned(rec)
       [] OTHER -> [rec EXCEPT !.pc = workers[w].next]

\* The worker after sendEvent returned through the given case: back in the
\* loop of main after a certificate, returning after an error, in the
\* deferred calls after a panic.
Sent(w, out) ==
  LET rec == [workers[w] EXCEPT
                !.pending = NoEvent, !.next = "",
                !.emitted = Append(@, [ev |-> workers[w].pending, out |-> out]),
                !.received = IF out = "delivered"
                             THEN Append(@, workers[w].pending) ELSE @]
  IN CASE workers[w].next = "loop" -> LoopHead(rec)
       [] workers[w].next = "return" -> Returned(rec)
       [] OTHER -> [rec EXCEPT !.pc = workers[w].next]

\* sendEvent, case w.eventChan <- res: the consumer receives the event.
SendEventDeliver(w) ==
  /\ workers[w].pc = "sendEvent"
  /\ Local(w, Sent(w, "delivered"))

\* sendEvent, case <-w.Client.stopChan.
SendEventStop(w) ==
  /\ workers[w].pc = "sendEvent"
  /\ stopChan = "closed"
  /\ Local(w, Sent(w, "stop"))

\* sendEvent, case <-w.ctx.Done().
SendEventCtxDone(w) ==
  /\ workers[w].pc = "sendEvent"
  /\ workers[w].ctx = "done"
  /\ Local(w, Sent(w, "ctx"))

\* ------------------------------------------------- the deferred calls of main

\* defer close(w.eventChan).
CloseEventChan(w) ==
  /\ workers[w].pc = "close"
  /\ Local(w, [workers[w] EXCEPT !.pc = Deferred("close"), !.closed = @ + 1])

\* defer w.Client.wg.Done().
WgDone(w) ==
  /\ workers[w].pc = "wgDone"
  /\ wg' = wg - 1
  /\ workers' = [workers EXCEPT ![w].pc = Deferred("wgDone")]
  /\ UNCHANGED otherThanLifecycle /\ UNCHANGED <<dataStore, certificates, certificatesMutex, certificateWaiters,
                 certificateWaitersMutex, stopChan, stopPc, issued, waiters>>

\* The context given to RequestCertificate is cancelled or times out.
CancelWorker(w) ==
  /\ workers[w].pc \notin {"idle", "done"}
  /\ workers[w].ctx = "live"
  /\ Local(w, [workers[w] EXCEPT !.ctx = "done"])

\* ------------------------------------------------------------ Client.Stop

\* Stop: close(c.stopChan).
StopClose ==
  /\ stopPc = "idle"
  /\ stopChan' = "closed"
  /\ stopPc' = "wait"
  /\ UNCHANGED otherThanLifecycle /\ UNCHANGED <<dataStore, certificates, certificatesMutex, certificateWaiters,
                 certificateWaitersMutex, wg, issued, waiters, workers>>

\* Stop: c.wg.Wait() returns when the counter is zero; Stop returns.
StopWait ==
  /\ stopPc = "wait"
  /\ wg = 0
  /\ stopPc' = "returned"
  /\ UNCHANGED otherThanLifecycle /\ UNCHANGED <<dataStore, certificates, certificatesMutex, certificateWaiters,
                 certificateWaitersMutex, stopChan, wg, issued, waiters, workers>>

\* ---------------------------------------------------------- specification

WaiterStep(u) ==
  \/ \E n \in Names : WaitLock(u, n)
  \/ WaitFast(u)
  \/ WaitRegister(u)
  \/ WaitStop(u)
  \/ WaitCtxDone(u)
  \/ WaitRemove(u)
  \/ WaitClose(u)

\* The steps of storeCertificate and sendEvent.
PublishStep(w) ==
  \/ StoreLock(w)
  \/ StoreWaitersLock(w)
  \/ StoreSend(w)
  \/ StoreUnlock(w)
  \/ SendEventDeliver(w)
  \/ SendEventStop(w)
  \/ SendEventCtxDone(w)

\* The steps of an order that goes well.
OrderStep(w) ==
  \/ SubmitOrder(w)
  \/ ValidateAuthorizations(w)
  \/ WaitForOrderReady(w)
  \/ FinalizeOrder(w)
  \/ DownloadCertificate(w)
  \/ PersistCertificate(w)

\* The steps of an order that fails.
OrderFailStep(w) ==
  \/ SubmitOrderFail(w)
  \/ ValidateAuthorizationsFail(w)
  \/ ValidateAuthorizationsPanic(w)
  \/ WaitForOrderReadyFail(w)
  \/ GenerateKeyFail(w)
  \/ FinalizeOrderFail(w)
  \/ DownloadEmptyChain(w)
  \/ DownloadCertificateFail(w)
  \/ PersistCertificateFail(w)
  \/ RetryTimer(w)
  \/ RetryAbort(w)

MainStep(w) ==
  \/ MainStart(w)
  \/ RenewalTimer(w)
  \/ RenewalAbort(w)
  \/ CloseEventChan(w)
  \/ WgDone(w)

WorkerStep(w) == MainStep(w) \/ PublishStep(w) \/ OrderStep(w) \/ OrderFailStep(w)

\* The WaitForCertificate calls of the lifecycle specification.
LifecycleWaiters == {"u1"}

Next ==
  \/ \E u \in LifecycleWaiters : WaiterStep(u)
  \/ \E u \in LifecycleWaiters : CancelWaiter(u)
  \/ \E w \in Workers, n \in Names, r \in Requests :
       RequestCertificate(w, n, r.ids, r.validity)
  \/ \E w \in Workers : WorkerStep(w)
  \/ \E w \in Workers : CancelWorker(w)
  \/ StopClose
  \/ StopWait

Spec == Init /\ [][Next]_vars

\* The registry seen by several WaitForCertificate calls while a worker
\* publishes: the worker's orders go well and its context stays live.
RegistryWorkerStep(w) ==
  \/ MainStart(w)
  \/ RenewalTimer(w)
  \/ RenewalAbort(w)
  \/ CloseEventChan(w)
  \/ WgDone(w)
  \/ StoreLock(w)
  \/ StoreWaitersLock(w)
  \/ StoreSend(w)
  \/ StoreUnlock(w)
  \/ SendEventDeliver(w)
  \/ SendEventStop(w)
  \/ OrderStep(w)

NextRegistry ==
  \/ \E u \in Waiters : WaiterStep(u)
  \/ \E u \in Waiters : CancelWaiter(u)
  \/ \E w \in Workers, n \in Names, r \in Requests :
       RequestCertificate(w, n, r.ids, r.validity)
  \/ \E w \in Workers : RegistryWorkerStep(w)
  \/ StopClose
  \/ StopWait

SpecRegistry == Init /\ [][NextRegistry]_vars

\* ================================================================= claims

\* The worker is inside a call of storeCertificate.
Storing(w) == workers[w].pc \in {"storeLock", "storeWaiters", "storeSend"}

\* A call of storeCertificate by the worker has returned and the worker has
\* not called it again: workers[w].snap is the X of that call.
StoreReturned(w) == workers[w].published > 0 /\ ~Storing(w)

\* No other worker publishes under the name of the worker's certificate.
SoleWriter(w) ==
  \A w2 \in Workers \ {w} : workers[w2].snap.name # workers[w].snap.name

\* C1 as stated: after storeCertificate(X) for name n returned, Certificate(n)
\* returns X until the next storeCertificate for n, and every
\* WaitForCertificate(n) caller that was registered as a waiter before the
\* store call has received X.
C1_Original ==
  \A w \in Workers :
    StoreReturned(w) /\ SoleWriter(w) =>
      /\ Certificate(workers[w].snap.name) = workers[w].snap
      /\ \A u \in workers[w].regBefore : waiters[u].ret = workers[w].snap

\* C1 amended: after storeCertificate(X) for name n returned, Certificate(n)
\* returns X until the next storeCertificate for n, and every
\* WaitForCertificate(n) caller whose channel was in the waiter list when the
\* store call locked the list has received X through its channel.
C1_StoreLinearizable ==
  \A w \in Workers :
    StoreReturned(w) /\ SoleWriter(w) =>
      /\ Certificate(workers[w].snap.name) = workers[w].snap
      /\ \A u \in SeqToSet(workers[w].sendList) :
           waiters[u].viaChan /\ waiters[u].ret = workers[w].snap

\* C1 witness: a store call returned after handing X to two waiters.
C1_Witness ==
  \E w \in Workers :
    /\ StoreReturned(w)
    /\ Len(workers[w].sendList) = 2
    /\ \A u \in SeqToSet(workers[w].sendList) : waiters[u].ret = workers[w].snap
    /\ Certificate(workers[w].snap.name) = workers[w].snap

\* The worker is inside storeCertificate for the name, has written the map
\* and has not yet sent to the waiter's channel.
StoreWillServe(w, u) ==
  /\ workers[w].snap.name = waiters[u].name
  /\ \/ /\ workers[w].pc = "storeWaiters"
        /\ u \in SeqToSet(certificateWaiters[waiters[u].name])
     \/ /\ workers[w].pc = "storeSend"
        /\ \E i \in workers[w].sendIdx..Len(workers[w].sendList) :
             workers[w].sendList[i] = u

\* The call of WaitForCertificate left its select without the stop or ctx case.
Obtained(u) ==
  waiters[u].pc \in {"leave", "close", "done"} /\ waiters[u].left = ""

WaitForCertificateStep(u) ==
  LET a == waiters[u]
      b == waiters'[u]
  IN /\ a.pc = "locked" /\ b.pc = "done" =>
          /\ RegistryHolds(a.name)
          /\ b.ret = Certificate(a.name) /\ b.ret # Nil
          /\ certificateWaiters' = certificateWaiters
     /\ a.pc = "locked" /\ b.pc = "select" =>
          /\ ~RegistryHolds(a.name)
          /\ u \in SeqToSet(certificateWaiters'[a.name])
     /\ a.pc = "select" /\ b.pc = "leave" =>
          \/ /\ b.left = "stop" /\ stopChan = "closed" /\ b.ret = Nil
          \/ /\ b.left = "ctx" /\ a.ctx = "done" /\ b.ret = Nil
          \/ /\ b.left = "" /\ b.ret # Nil
             /\ b.ret = Certificate(a.name)
             /\ \E w \in Workers : b.ret = workers[w].snap
     /\ a.pc = "select" => b.pc \in {"select", "leave"}

\* C3: WaitForCertificate returns the registry data immediately when the
\* name is present; otherwise it registers a waiter and blocks, and leaves
\* the select with the published data when it is stored, and with nil when
\* the stop channel is closed or the context is done.
C3_WaitForCertificate ==
  [][\A u \in Waiters : WaitForCertificateStep(u)]_vars

\* C3 witness: calls returned on the channel path with the published data
\* and on the stop path with nil.
C3_Witness ==
  \E u1, u2 \in Waiters :
    /\ waiters[u1].pc = "done" /\ waiters[u1].viaChan
    /\ waiters[u1].ret = Certificate(waiters[u1].name)
    /\ waiters[u2].pc = "done" /\ waiters[u2].left = "stop"
    /\ waiters[u2].ret = Nil

\* The worker was started with a stored certificate whose identifiers and
\* validity are those requested.
Matching(w) ==
  /\ workers[w].pc # "idle"
  /\ workers[w].loaded # Nil
  /\ workers[w].loaded.ids = workers[w].args.ids
  /\ workers[w].loaded.validity = workers[w].args.validity

\* The worker was started without a stored certificate for the name, or with
\* one whose identifiers or validity differ from those requested.
StartedFresh(w) == workers[w].pc # "idle" /\ ~Matching(w)

\* Neither Stop nor the cancellation of the worker's context has happened.
Undisturbed(w) == stopChan = "open" /\ workers[w].ctx = "live"

\* C4: a worker started by RequestCertificate(name, ids, validity) on a data
\* store holding a certificate of that name with deep-equal identifiers and
\* equal validity publishes the stored certificate, as registry entry and as
\* first event of its channel, before it submits any order.
C4_StoredPublishedFirst ==
  \A w \in Workers :
    Matching(w) /\ workers[w].orders > 0 =>
      /\ workers[w].published > 0
      /\ issued = 0 => Certificate(workers[w].args.name) = workers[w].loaded
      /\ Len(workers[w].emitted) > 0
      /\ workers[w].emitted[1].ev = CertEvent(workers[w].loaded)
      /\ Undisturbed(w) =>
           /\ Len(workers[w].received) > 0
           /\ workers[w].received[1] = CertEvent(workers[w].loaded)

\* C4 witness: such a worker has submitted an order after its consumer
\* received the stored certificate.
C4_Witness ==
  \E w \in Workers :
    /\ Matching(w) /\ workers[w].orders > 0 /\ Undisturbed(w)
    /\ workers[w].received[1] = CertEvent(workers[w].loaded)
    /\ Certificate(workers[w].args.name) = workers[w].loaded

\* The stored chain appears in the data.
HasStoredChain(d) == \E i \in 1..Len(d.chain) : d.chain[i] = StoredCert

\* C5: a worker started without a stored certificate for the name, or with a
\* stored one whose identifiers or validity differ from the arguments, starts
\* from data with an empty chain; the stored chain is never published (not in
\* the registry, not in an event, not to a waiter), and nothing (no renewal
\* wait, no publication, no event) precedes the submission of its first order.
C5_FreshStart ==
  \A w \in Workers :
    StartedFresh(w) =>
      /\ workers[w].pc = "main" =>
           /\ workers[w].certData =
                [workers[w].args EXCEPT !.key = NilKey, !.chain = <<>>]
      /\ workers[w].orders = 0 =>
           /\ workers[w].waits = 0
           /\ workers[w].published = 0
           /\ workers[w].emitted = <<>>
           /\ workers[w].pc \in {"main", "order"}
      /\ ~HasStoredChain(workers[w].snap)
      /\ ~HasStoredChain(Certificate(workers[w].args.name))
      /\ \A i \in 1..Len(workers[w].emitted) :
           ~HasStoredChain(workers[w].emitted[i].ev.data)
      /\ \A u \in Waiters : ~HasStoredChain(waiters[u].ret)

\* C5 witness: a worker started on a stored certificate with other
\* identifiers or validity has published a certificate of a new order.
C5_Witness ==
  \E w \in Workers :
    /\ StartedFresh(w) /\ workers[w].loaded # Nil
    /\ workers[w].orders > 0
    /\ Len(workers[w].received) > 0
    /\ workers[w].received[1].kind = "cert"

\* C6: with an empty data store and a server that validates every
\* authorization and issues a chain, the first event received from
\* RequestCertificate(name, ids, validity) has no error and certificate data
\* whose name, identifiers and validity are the arguments, whose chain is not
\* empty and whose private key is set.
C6_FirstEvent ==
  \A w \in Workers :
    /\ workers[w].loaded = Nil
    /\ ~workers[w].faulty
    /\ Len(workers[w].received) > 0
    => LET e == workers[w].received[1]
       IN /\ e.kind = "cert" /\ e.cause = ""
          /\ e.data.name = workers[w].args.name
          /\ e.data.ids = workers[w].args.ids
          /\ e.data.validity = workers[w].args.validity
          /\ Len(e.data.chain) > 0
          /\ e.data.key # NilKey

\* C6 witness: the consumer of a worker started on an empty data store has
\* received the first event of a run without failure.
C6_Witness ==
  \E w \in Workers :
    /\ workers[w].loaded = Nil /\ workers[w].pc # "idle"
    /\ ~workers[w].faulty
    /\ Len(workers[w].received) = 1
    /\ workers[w].received[1].kind = "cert"

\* The positions of the worker inside orderCertificate.
OrderPcs == {"order", "authz", "ready", "finalize", "download", "persist"}

\* The positions of the worker in the deferred calls after the recover
\* function, and after them.
TerminationPcs == {"close", "wgDone", "done"}

\* The events of the kind among those the worker emitted.
EmittedOfKind(w, kind) ==
  {i \in 1..Len(workers[w].emitted) : workers[w].emitted[i].ev.kind = kind}

\* This step is the return of orderCertificate with an error.
OrderFails(w) ==
  /\ workers[w].pc \in OrderPcs
  /\ workers'[w].pc \in {"sendEvent", "retryWait"}
  /\ workers'[w].pending.cause # "panic"

\* C7, the step: an order that fails while the worker's data holds no
\* certificate makes the worker send one error event, the first it emits,
\* and return.
FailsWithoutCertificate(w) ==
  OrderFails(w) /\ ~ContainsCertificate(workers[w].certData) =>
    /\ workers'[w].pc = "sendEvent"
    /\ workers'[w].pending.kind = "err"
    /\ workers'[w].next = "return"
    /\ EmittedOfKind(w, "err") = {}

\* C7, the states: the worker emits at most one error event, it is the last
\* event it emits, and after it the worker only closes its channel and
\* terminates.
ErrorIsFinal(w) ==
  /\ Cardinality(EmittedOfKind(w, "err")) <= 1
  /\ EmittedOfKind(w, "err") # {} =>
       /\ workers[w].emitted[Len(workers[w].emitted)].ev.kind = "err"
       /\ workers[w].pc \in TerminationPcs
       /\ workers[w].pc = "done" => workers[w].closed = 1

C8_Original ==
  \A w \in Workers :
    workers[w].published > 0 =>
      /\ workers[w].pending.kind = "err" => workers[w].pending.cause = "panic"
      /\ \A i \in EmittedOfKind(w, "err") :
           workers[w].emitted[i].ev.cause = "panic"
      /\ workers[w].pc \in TerminationPcs =>
           \/ stopChan = "closed"
           \/ workers[w].ctx = "done"
           \/ EmittedOfKind(w, "err") # {}

\* The events the consumer received are the events whose send completed, in
\* the order the worker emitted them.
ReceivedInOrder(w) ==
  LET sent == SelectSeq(workers[w].emitted, LAMBDA e : e.out = "delivered")
  IN /\ Len(workers[w].received) = Len(sent)
     /\ \A i \in 1..Len(sent) : workers[w].received[i] = sent[i].ev

\* C9, the states: the channel is closed at most once, it is closed when
\* the worker has terminated, and the consumer received the events in order.
ClosedOnce(w) ==
  /\ workers[w].closed <= 1
  /\ workers[w].pc \in {"wgDone", "done"} <=> workers[w].closed = 1
  /\ workers[w].closed = 1 => workers[w].pending = NoEvent
  /\ ReceivedInOrder(w)

\* C9, the steps: nothing is sent on a closed channel.
NoSendAfterClose(w) ==
  workers[w].closed > 0 =>
    /\ workers'[w].emitted = workers[w].emitted
    /\ workers'[w].received = workers[w].received
    /\ workers'[w].pc # "sendEvent"

\* C9: on every termination path of a worker (order failure, stop, ctx done,
\* panic) its event channel is closed exactly once, no event is sent after
\* the close, and events are received in the order the worker emitted them.
C9_ChannelClosedOnce ==
  /\ [](\A w \in Workers : ClosedOnce(w))
  /\ [][\A w \in Workers : NoSendAfterClose(w)]_vars

\* C9 witness: a worker terminated by a panic after its consumer received a
\* certificate and then the error of the panic.
C9_Witness ==
  \E w \in Workers :
    /\ workers[w].pc = "done" /\ workers[w].closed = 1
    /\ Len(workers[w].received) = 2
    /\ workers[w].received[1].kind = "cert"
    /\ workers[w].received[2] = ErrEvent("panic")

\* The lifecycle under the scheduling of the Go runtime: a goroutine that can
\* take a step takes one, and a wait whose stop or ctx case is ready again
\* and again (the timers last a second or more) ends through that case.
FairSpec ==
  /\ Spec
  /\ WF_vars(Next)
  /\ \A w \in Workers : SF_vars(RetryAbort(w)) /\ SF_vars(RenewalAbort(w))

\* C10 as stated: Client.Stop() eventually returns for every state of the
\* running workers and waiters, and when it has returned every worker started
\* by RequestCertificate has terminated and its event channel is closed.
C10_Original ==
  /\ (stopPc = "wait") ~> (stopPc = "returned")
  /\ [](stopPc = "returned" =>
          \A w \in Workers :
            workers[w].pc = "idle"
              \/ (workers[w].pc = "done" /\ workers[w].closed = 1))

\* ================================================ nonces and sendRequest

\* Nonces the server issues in a run with several callers, and in a run
\* against Pebble with one caller; then it sends no Replay-Nonce any more.
MaxNonces == 4
PebbleNonces == 100

\* sendRequest calls each caller makes in a run.
MaxCalls == 2

\* The number of attempts of sendRequest.
nbAttempts(dir) == IF dir = "pebble" THEN 100 ELSE 3


\* The callers of a run: against Pebble a single caller uses the long budget.
ActiveCallers == IF directoryURI = "pebble" THEN {"r1"} ELSE Callers

\* The nonces the server issues in the run.
NonceSupply == IF directoryURI = "pebble" THEN PebbleNonces ELSE MaxNonces

InitNonces ==
  /\ ResponseIdle
  /\ ValidationIdle
  /\ OrderIdle
  /\ AccountsIdle
  /\ RequestsIdle
  /\ RenewalIdle
  /\ LifecycleIdle
  /\ PollingIdle
  /\ SolverIdle
  /\ directoryURI \in {"pebble", "other"}
  /\ nonces = <<>>
  /\ serverNonces = 0
  /\ signCount = <<>>
  /\ callers = [r \in Callers |-> InitCaller]

\* A caller enters sendRequest: i := 0.
SendRequest(r) ==
  /\ r \in ActiveCallers
  /\ callers[r].pc = "idle"
  /\ callers[r].calls < MaxCalls
  /\ callers' = [callers EXCEPT ![r] =
       [InitCaller EXCEPT !.pc = "next", !.calls = callers[r].calls + 1]]
  /\ UNCHANGED otherThanNonces /\ UNCHANGED <<directoryURI, nonces, serverNonces, signCount>>

\* A pool that keeps the nonce it hands out.
NoncesKept(pool) == pool

\* nextNonce, the pool after a take: c.nonces = c.nonces[1:].
NoncesTaken(pool) == Tail(pool)

\* A storeNonce that appends the nonce twice.
storeNonceTwice(pool, nonce) == Append(Append(pool, nonce), nonce)

\* storeNonce: c.nonces = append(c.nonces, nonce).
storeNonce(pool, nonce) == Append(pool, nonce)

\* nextNonce with a nonce in the pool: taken and removed under the mutex.
NextNonceTake(r) ==
  /\ callers[r].pc = "next"
  /\ Len(nonces) > 0
  /\ nonces' = NoncesTaken(nonces)
  /\ callers' = [callers EXCEPT ![r].pc = "sign", ![r].nonce = nonces[1],
                                ![r].taken = @ + 1]
  /\ UNCHANGED otherThanNonces /\ UNCHANGED <<directoryURI, serverNonces, signCount>>

\* nextNonce with an empty pool: the mutex is released before fetchNonce.
NextNonceEmpty(r) ==
  /\ callers[r].pc = "next"
  /\ Len(nonces) = 0
  /\ callers' = [callers EXCEPT ![r].pc = "fetch"]
  /\ UNCHANGED otherThanNonces /\ UNCHANGED <<directoryURI, nonces, serverNonces, signCount>>

\* fetchNonce: HEAD newNonce answers with a Replay-Nonce, which is not stored.
FetchNonce(r) ==
  /\ callers[r].pc = "fetch"
  /\ serverNonces < NonceSupply
  /\ serverNonces' = serverNonces + 1
  /\ callers' = [callers EXCEPT ![r].pc = "sign", ![r].nonce = serverNonces + 1,
                                ![r].taken = @ + 1]
  /\ UNCHANGED otherThanNonces /\ UNCHANGED <<directoryURI, nonces, signCount>>

\* fetchNonce fails: sendRequest returns "cannot obtain nonce".
FetchNonceFail(r) ==
  /\ callers[r].pc = "fetch"
  /\ callers' = [callers EXCEPT ![r].pc = "idle", ![r].result = "nonce"]
  /\ UNCHANGED otherThanNonces /\ UNCHANGED <<directoryURI, nonces, serverNonces, signCount>>

\* The count of signatures after one more with the nonce.
Signed(count, nonce) ==
  [n \in (DOMAIN count) \cup {nonce} |->
     IF n = nonce
     THEN (IF n \in DOMAIN count THEN Min(count[n] + 1, 2) ELSE 1)
     ELSE count[n]]

\* sendRequestWithNonce: signPayload(data, uri, nonce) and httpClient.Do.
SignAndSend(r) ==
  /\ callers[r].pc = "sign"
  /\ signCount' = Signed(signCount, callers[r].nonce)
  /\ callers' = [callers EXCEPT ![r].pc = "respond",
                                ![r].used = Append(@, callers[r].nonce)]
  /\ UNCHANGED otherThanNonces /\ UNCHANGED <<directoryURI, nonces, serverNonces>>

\* A loop of sendRequest that goes on after every error.
AttemptAgainAlways(dir, i, outcome) == outcome # "ok" /\ i + 1 < nbAttempts(dir)

\* The loop of sendRequest goes on after the attempt of index i.
AttemptAgain(dir, i, outcome) == outcome = "badNonce" /\ i + 1 < nbAttempts(dir)

\* What sendRequest returns when the loop ends after the outcome.
SendResult(outcome) ==
  CASE outcome = "ok" -> "ok"
    [] outcome = "badNonce" -> "badNonce"
    [] OTHER -> "error"

\* The caller after the attempt of index i ended with the outcome.
Attempted(rec, dir, outcome) ==
  LET done == [rec EXCEPT !.outcomes = Append(@, outcome), !.taken = 0,
                          !.lastBadNonce = (outcome = "badNonce")]
  IN IF AttemptAgain(dir, rec.i, outcome)
     THEN [done EXCEPT !.pc = "next", !.i = @ + 1]
     ELSE [done EXCEPT !.pc = "idle", !.result = SendResult(outcome),
                       !.i = IF outcome = "badNonce" THEN @ + 1 ELSE @]

\* sendRequestWithNonce: the response carries a Replay-Nonce, which is stored,
\* and is a success, a badNonce problem or another error.
Respond(r, outcome) ==
  /\ callers[r].pc = "respond"
  /\ serverNonces < NonceSupply
  /\ serverNonces' = serverNonces + 1
  /\ nonces' = storeNonce(nonces, serverNonces + 1)
  /\ callers' = [callers EXCEPT ![r] = Attempted(callers[r], directoryURI, outcome)]
  /\ UNCHANGED otherThanNonces /\ UNCHANGED <<directoryURI, signCount>>

\* sendRequestWithNonce: a response without Replay-Nonce, or no response.
RespondBare(r, outcome) ==
  /\ callers[r].pc = "respond"
  /\ callers' = [callers EXCEPT ![r] = Attempted(callers[r], directoryURI, outcome)]
  /\ UNCHANGED otherThanNonces /\ UNCHANGED <<directoryURI, nonces, serverNonces, signCount>>

Outcomes == {"ok", "badNonce", "error"}

NextNonces ==
  \/ \E r \in Callers : SendRequest(r)
  \/ \E r \in Callers : NextNonceTake(r)
  \/ \E r \in Callers : NextNonceEmpty(r)
  \/ \E r \in Callers : FetchNonce(r)
  \/ \E r \in Callers : FetchNonceFail(r)
  \/ \E r \in Callers : SignAndSend(r)
  \/ \E r \in Callers, o \in Outcomes : Respond(r, o)
  \/ \E r \in Callers, o \in Outcomes : RespondBare(r, o)

SpecNonces == InitNonces /\ [][NextNonces]_nvars

\* C11: for every sequence of requests of concurrent callers, no nonce is
\* signed into more than one request (the server issuing each nonce once), and
\* each signed attempt obtained its nonce, from the pool or by a fetch,
\* exactly once.
C11_NonceSignedOnce ==
  /\ \A n \in DOMAIN signCount : signCount[n] <= 1
  /\ \A i \in 1..Len(nonces) : nonces[i] \notin DOMAIN signCount
  /\ \A r \in Callers :
       /\ callers[r].pc \in {"sign", "respond"} => callers[r].taken = 1
       /\ callers[r].pc \in {"idle", "next", "fetch"} => callers[r].taken = 0

\* C11 witness: two callers have signed requests, one with a fetched nonce
\* and one with a nonce of the pool.
C11_Witness ==
  /\ Len(callers["r1"].used) > 0 /\ Len(callers["r2"].used) > 0
  /\ callers["r1"].pc = "respond" /\ callers["r2"].pc = "respond"
  /\ Cardinality(DOMAIN signCount) >= 3

\* The call of sendRequest by the caller has returned.
SendReturned(r) == callers[r].pc = "idle" /\ callers[r].calls > 0

\* The outcomes of the attempts of the call before the last one.
EarlierOutcomes(r) ==
  {callers[r].outcomes[k] : k \in 1..(Len(callers[r].outcomes) - 1)}

\* The outcome of the last attempt of the call, "" before the first.
LastOutcome(r) ==
  IF callers[r].outcomes = <<>> THEN ""
  ELSE callers[r].outcomes[Len(callers[r].outcomes)]

\* C12: sendRequest re-sends a request if and only if the previous attempt
\* failed with a badNonce problem and fewer than N attempts were made (N = 3,
\* N = 100 for Pebble's directory); each attempt takes a new nonce; a
\* successful attempt is returned as success, and a badNonce error is
\* returned only after N consecutive badNonce failures. A call whose next
\* nonce cannot be obtained returns that error instead of re-sending.
C12_BadNonceRetry ==
  \A r \in Callers :
    LET c == callers[r]
        N == nbAttempts(directoryURI)
    IN /\ Len(c.outcomes) <= N
       /\ EarlierOutcomes(r) \subseteq {"badNonce"}
       /\ ~SendReturned(r) /\ c.outcomes # <<>> =>
            LastOutcome(r) = "badNonce" /\ Len(c.outcomes) < N
       /\ SendReturned(r) =>
            /\ c.result = "ok" <=> LastOutcome(r) = "ok"
            /\ c.result = "error" <=> LastOutcome(r) = "error"
            /\ c.result = "badNonce" <=>
                 LastOutcome(r) = "badNonce" /\ Len(c.outcomes) = N
            /\ c.result = "nonce" <=>
                 LastOutcome(r) \in {"", "badNonce"} /\ Len(c.outcomes) < N
       /\ \A j, k \in 1..Len(c.used) : j # k => c.used[j] # c.used[k]
       /\ Len(c.used) = Len(c.outcomes) + (IF c.pc = "respond" THEN 1 ELSE 0)

\* C12 witness: against Pebble a call returned the badNonce error after 100
\* attempts that all failed with badNonce.
C12_Witness ==
  /\ directoryURI = "pebble"
  /\ SendReturned("r1")
  /\ callers["r1"].result = "badNonce"
  /\ Len(callers["r1"].outcomes) = 100
  /\ Cardinality(DOMAIN signCount) >= 100

\* ============================================== waitDelay and the polling loops

\* Non-negative integers of any size, as sequences of base-256 digits, least
\* significant first, without leading zero digit; 0 is the empty sequence.
RECURSIVE MulAdd(_, _, _)
MulAdd(x, m, c) ==
  IF x = <<>>
  THEN (IF c = 0 THEN <<>> ELSE <<c % 256>> \o MulAdd(<<>>, m, c \div 256))
  ELSE LET v == x[1] * m + c
       IN <<v % 256>> \o MulAdd(Tail(x), m, v \div 256)

\* x * 10^9: the number of nanoseconds of x seconds.
Nanoseconds(x) == MulAdd(MulAdd(MulAdd(x, 1000, 0), 1000, 0), 1000, 0)

\* The eight low digits of x: its value modulo 2^64, the bits of an int64.
Int64Bits(x) == [k \in 1..8 |-> IF k <= Len(x) THEN x[k] ELSE 0]

\* x is at most 2^63 - 1, the largest int64.
FitsInt64(x) == Len(x) < 8 \/ (Len(x) = 8 /\ x[8] < 128)

\* The bits of -x for 0 < x <= 2^63: complement and add one.
RECURSIVE AddOne(_)
AddOne(x) ==
  IF x = <<>> THEN <<>>
  ELSE IF x[1] < 255 THEN <<x[1] + 1>> \o Tail(x)
  ELSE <<0>> \o AddOne(Tail(x))

Negated(bits) == AddOne([k \in 1..8 |-> 255 - bits[k]])

DecimalDigits == <<"0", "1", "2", "3", "4", "5", "6", "7", "8", "9">>

IsDigit(ch) == \E d \in 1..10 : DecimalDigits[d] = ch

DigitValue(ch) == (CHOOSE d \in 1..10 : DecimalDigits[d] = ch) - 1

\* The number written by a sequence of decimal digits.
RECURSIVE ParseDigits(_, _)
ParseDigits(s, acc) ==
  IF s = <<>> THEN acc
  ELSE ParseDigits(Tail(s), MulAdd(acc, 10, DigitValue(s[1])))

\* strconv.ParseInt(s, 10, 64): an optional sign and decimal digits, with a
\* range error beyond the int64 values.
ParseInt(s) ==
  LET signed == s # <<>> /\ s[1] \in {"+", "-"}
      neg == s # <<>> /\ s[1] = "-"
      digits == IF signed THEN Tail(s) ELSE s
      syntax == digits # <<>> /\ \A k \in 1..Len(digits) : IsDigit(digits[k])
      mag == IF syntax THEN ParseDigits(digits, <<>>) ELSE <<>>
      inRange == IF neg
                 THEN FitsInt64(mag) \/ Int64Bits(mag) = Negated(Int64Bits(mag))
                 ELSE FitsInt64(mag)
  IN [ok |-> syntax /\ Len(mag) <= 8 /\ inRange, neg |-> neg /\ mag # <<>>,
      mag |-> mag]

\* The bits of a whole number of seconds, negative or not, as a Duration.
SecondsBits(neg, secs) ==
  IF neg THEN Negated(Int64Bits(Nanoseconds(secs)))
  ELSE Int64Bits(Nanoseconds(secs))

\* A small natural number as a sequence of base-256 digits.
Digits256(n) == MulAdd(<<>>, 1, n)

\* defaultDelay := time.Second
defaultDelay == SecondsBits(FALSE, Digits256(1))

\* The Retry-After header of a response: absent, a text, or an HTTP-date,
\* which time.Parse(http.TimeFormat, s) decodes to an instant given here by
\* its distance in seconds from the moment waitDelay runs.
NoHeader == [kind |-> "text", text |-> <<>>, late |-> FALSE, secs |-> 0]
TextHeader(t) == [kind |-> "text", text |-> t, late |-> FALSE, secs |-> 0]
DateHeader(late, secs) == [kind |-> "date", text |-> <<>>, late |-> late, secs |-> secs]

\* Client.waitDelay: the Duration the loop waits before the next fetch.
waitDelay(h) ==
  LET i == ParseInt(h.text)
  IN IF h.kind = "text" /\ h.text = <<>> THEN defaultDelay
     ELSE IF h.kind = "text" /\ i.ok /\ ~i.neg
     THEN Int64Bits(Nanoseconds(i.mag))
     ELSE IF h.kind = "date" THEN SecondsBits(h.late, Digits256(h.secs))
     ELSE defaultDelay

\* The Retry-After headers the server answers with: absent, integers
\* (small, signed, at and beyond the int64 limits), other texts, dates
\* after and before now.
RetryAfterHeaders ==
  {NoHeader,
   TextHeader(<<"0">>), TextHeader(<<"5">>), TextHeader(<<"1", "2", "0">>),
   TextHeader(<<"-", "5">>), TextHeader(<<"+", "7">>), TextHeader(<<"-", "0">>),
   TextHeader(<<"1", ".", "5">>), TextHeader(<<"s", "o", "o", "n">>),
   TextHeader(<<"9", "2", "2", "3", "3", "7", "2", "0", "3", "6">>),
   TextHeader(<<"9", "2", "2", "3", "3", "7", "2", "0", "3", "7">>),
   TextHeader(<<"1", "8", "4", "4", "6", "7", "4", "4", "0", "7", "4">>),
   TextHeader(<<"9", "2", "2", "3", "3", "7", "2", "0", "3", "6",
                "8", "5", "4", "7", "7", "5", "8", "0", "7">>),
   TextHeader(<<"9", "2", "2", "3", "3", "7", "2", "0", "3", "6",
                "8", "5", "4", "7", "7", "5", "8", "0", "8">>),
   DateHeader(FALSE, 30), DateHeader(TRUE, 30)}

\* Fetches of one polling loop in a run.
MaxFetches == 2

PollingLoops == {"orderReady", "orderValid", "challenge", "authorization"}

Statuses ==
  {"pending", "ready", "processing", "valid", "invalid", "deactivated",
   "expired", "revoked", "unknown"}

\* The switch of waitForOrderValid, used by every loop.
StatusBranchOrderValid(loop, status) ==
  IF status \in {"ready", "processing"} THEN "poll"
  ELSE IF status = "valid" THEN "ok" ELSE "error"

\* The switch of waitForOrderReady, used by every loop.
StatusBranchOrderReady(loop, status) ==
  IF status = "pending" THEN "poll"
  ELSE IF status = "ready" THEN "ok" ELSE "error"

\* The switch of waitForChallengeValid, used by every loop.
StatusBranchChallenge(loop, status) ==
  IF status \in {"pending", "processing"} THEN "poll"
  ELSE IF status = "valid" THEN "ok" ELSE "error"

\* What the switch of a polling loop does with a status: go on polling,
\* return without error, return an error.
StatusBranch(loop, status) ==
  CASE loop = "orderReady" ->
         (IF status = "pending" THEN "poll"
          ELSE IF status = "ready" THEN "ok" ELSE "error")
    [] loop = "orderValid" ->
         (IF status \in {"ready", "processing"} THEN "poll"
          ELSE IF status = "valid" THEN "ok" ELSE "error")
    [] loop = "challenge" ->
         (IF status \in {"pending", "processing"} THEN "poll"
          ELSE IF status = "valid" THEN "ok" ELSE "error")
    [] loop = "authorization" ->
         (IF status = "pending" THEN "poll"
          ELSE IF status = "valid" THEN "ok" ELSE "error")

\* An error that is the problem document of the order or of the challenge.
ProblemOrUnknown(problem) == IF problem THEN "problem" ELSE "unknown error"

\* A switch that never returns the problem document of the object.
StatusErrorGeneric(loop, status, problem) ==
  IF status = "invalid" THEN "unknown error" ELSE "unknown status"

\* The error a polling loop returns for a status its switch does not accept;
\* problem tells whether the fetched object has an error field.
StatusError(loop, status, problem) ==
  CASE loop = "orderReady" ->
         (IF status \in {"processing", "valid"} THEN "unexpected status"
          ELSE IF status = "invalid" THEN ProblemOrUnknown(problem)
          ELSE "unknown status")
    [] loop = "orderValid" ->
         (IF status = "pending" THEN "unexpected status"
          ELSE IF status = "invalid" THEN ProblemOrUnknown(problem)
          ELSE "unknown status")
    [] loop = "challenge" ->
         (IF status = "invalid" THEN ProblemOrUnknown(problem)
          ELSE "unknown status")
    [] loop = "authorization" ->
         (IF status = "invalid" THEN "authorization failure"
          ELSE IF status = "deactivated" THEN "authorization deactivated"
          ELSE IF status = "expired" THEN "authorization expired"
          ELSE IF status = "revoked" THEN "authorization revoked"
          ELSE "unknown status")

InitPoll(loop) ==
  [loop |-> loop, pc |-> "fetch", ctx |-> "live", header |-> NoHeader,
   status |-> "", problem |-> FALSE, delay |-> defaultDelay, result |-> "",
   fetches |-> 0]

InitPolling ==
  /\ ResponseIdle
  /\ ValidationIdle
  /\ OrderIdle
  /\ AccountsIdle
  /\ RequestsIdle
  /\ RenewalIdle
  /\ LifecycleIdle
  /\ NoncesIdle
  /\ SolverIdle
  /\ poll \in {InitPoll(loop) : loop \in PollingLoops}

\* A step of the polling loop.
PollStep(rec) ==
  /\ poll' = rec
  /\ UNCHANGED otherThanPolling /\ UNCHANGED vars

\* The fetch of the loop succeeds; delay := c.waitDelay(res).
PollFetch(h, status, problem) ==
  /\ poll.pc = "fetch"
  /\ poll.ctx = "live"
  /\ poll.fetches < MaxFetches
  /\ PollStep([poll EXCEPT !.pc = "status", !.header = h, !.status = status,
                           !.problem = problem,
                           !.delay = waitDelay(h), !.fetches = @ + 1])

\* The fetch of the loop fails.
PollFetchFail ==
  /\ poll.pc = "fetch"
  /\ PollStep([poll EXCEPT !.pc = "done", !.result = "fetch"])

\* The switch on the status.
PollStatus ==
  /\ poll.pc = "status"
  /\ LET branch == StatusBranch(poll.loop, poll.status)
     IN PollStep(IF branch = "poll" THEN [poll EXCEPT !.pc = "wait"]
                 ELSE IF branch = "ok"
                 THEN [poll EXCEPT !.pc = "done", !.result = "ok"]
                 ELSE [poll EXCEPT !.pc = "done",
                         !.result = StatusError(poll.loop, poll.status,
                                                poll.problem)])

\* waitForVerification(ctx, delay), case <-timer.C: the loop fetches again.
PollTimer ==
  /\ poll.pc = "wait"
  /\ PollStep([poll EXCEPT !.pc = "fetch", !.header = NoHeader, !.status = "",
                           !.problem = FALSE, !.delay = defaultDelay])

\* waitForVerification, case <-c.stopChan.
PollStop ==
  /\ poll.pc = "wait"
  /\ stopChan = "closed"
  /\ PollStep([poll EXCEPT !.pc = "done", !.result = "ErrVerificationInterrupted"])

\* A waitForVerification that reports every end of ctx as a timeout.
PollCtxDoneTimeout ==
  /\ poll.pc = "wait"
  /\ poll.ctx # "live"
  /\ PollStep([poll EXCEPT !.pc = "done", !.result = "ErrVerificationTimeout"])

\* waitForVerification, case <-ctx.Done().
PollCtxDone ==
  /\ poll.pc = "wait"
  /\ poll.ctx # "live"
  /\ PollStep([poll EXCEPT !.pc = "done",
        !.result = IF poll.ctx = "deadline" THEN "ErrVerificationTimeout"
                   ELSE "canceled"])

\* The context of the order reaches its deadline or is cancelled.
PollCtxEnds(how) ==
  /\ poll.pc # "done"
  /\ poll.ctx = "live"
  /\ PollStep([poll EXCEPT !.ctx = how])

NextPolling ==
  \/ \E h \in RetryAfterHeaders, st \in Statuses, problem \in BOOLEAN :
       PollFetch(h, st, problem)
  \/ PollFetchFail
  \/ PollStatus
  \/ PollTimer
  \/ PollStop
  \/ PollCtxDone
  \/ \E how \in {"deadline", "canceled"} : PollCtxEnds(how)
  \/ StopClose

SpecPolling == InitPolling /\ [][NextPolling]_<<pvars, vars>>

\* The Duration has the value of this exact number of nanoseconds.
DurationIs(bits, ns) == FitsInt64(ns) /\ bits = Int64Bits(ns)

\* The delay the claim C13 gives for a header.
RetryAfterDelay(bits, h) ==
  LET i == ParseInt(h.text)
  IN IF h.kind = "date"
     THEN bits = SecondsBits(h.late, Digits256(h.secs))
     ELSE IF i.ok /\ ~i.neg
     THEN DurationIs(bits, Nanoseconds(i.mag))
     ELSE DurationIs(bits, Nanoseconds(Digits256(1)))

\* C13 as stated: in every polling loop the delay before the next fetch
\* equals the value parsed from the Retry-After header of the previous
\* response (a non-negative integer number of seconds, or the time until an
\* HTTP-date), and is 1 second when the header is absent or cannot be parsed.
C13_Original ==
  poll.pc = "wait" => RetryAfterDelay(poll.delay, poll.header)

\* ============================================ solveChallenge and the responder

\* Calls of solveChallenge each worker makes in a run.
MaxSolves == 2

Solvers == {"s1", "s2"}

\* The tokens of the challenges the server hands out; two orders can get the
\* same authorization, hence the same token.
Tokens == {"t1", "t2"}

\* The tokens the responder is asked for.
RequestedTokens == Tokens \cup {"t3"}

\* The first worker validates several authorizations, the second one.
SolveLimit(s) == IF s = "s1" THEN MaxSolves ELSE 1

accountThumbprint == "thumbprint"

InitSolver ==
  [pc |-> "idle", token |-> "", result |-> "", solves |-> 0,
   setups |-> <<>>, teardowns |-> <<>>]

InitSolving ==
  /\ ResponseIdle
  /\ ValidationIdle
  /\ OrderIdle
  /\ AccountsIdle
  /\ RequestsIdle
  /\ RenewalIdle
  /\ LifecycleIdle
  /\ NoncesIdle
  /\ PollingIdle
  /\ challenges = {}
  /\ solvers = [s \in Solvers |-> InitSolver]
  /\ reply = <<>>

\* A step of one worker in solveChallenge.
SolverStep(s, rec) ==
  /\ solvers' = [solvers EXCEPT ![s] = rec]
  /\ UNCHANGED otherThanSolver /\ UNCHANGED vars

\* validateAuthorization calls solveChallenge with the selected challenge.
SolveChallenge(s, t) ==
  /\ solvers[s].pc \in {"idle", "done"}
  /\ solvers[s].solves < SolveLimit(s)
  /\ UNCHANGED <<challenges, reply>>
  /\ SolverStep(s, [solvers[s] EXCEPT !.pc = "setup", !.token = t,
                                      !.result = "", !.solves = @ + 1])

\* addToken: s.challenges[token] = struct{}{}.
addToken(set, t) == set \cup {t}

\* discardToken: delete(s.challenges, token).
discardToken(set, t) == set \ {t}

\* setupChallenge of an HTTP-01 challenge: the token is registered and the
\* teardown is deferred.
SetupChallenge(s) ==
  /\ solvers[s].pc = "setup"
  /\ challenges' = addToken(challenges, solvers[s].token)
  /\ UNCHANGED reply
  /\ SolverStep(s, [solvers[s] EXCEPT !.pc = "submit",
                                      !.setups = Append(@, solvers[s].token)])

\* setupChallenge returns an error (DNS-01, unknown type) or panics (data of
\* another type): nothing is registered, nothing is deferred.
SetupChallengeFail(s, how) ==
  /\ solvers[s].pc = "setup"
  /\ UNCHANGED <<challenges, reply>>
  /\ SolverStep(s, [solvers[s] EXCEPT !.pc = "done", !.result = how])

\* A solveChallenge whose teardown runs only when the challenge was solved.
AfterSolveOnSuccess(result) == IF result = "ok" THEN "teardown" ELSE "done"

\* The deferred teardown runs on every return of solveChallenge after the
\* setup, and on a panic.
AfterSolve(result) == "teardown"

\* submitChallenge succeeds.
SubmitChallenge(s) ==
  /\ solvers[s].pc = "submit"
  /\ UNCHANGED <<challenges, reply>>
  /\ SolverStep(s, [solvers[s] EXCEPT !.pc = "waitValid"])

\* submitChallenge fails.
SubmitChallengeFail(s) ==
  /\ solvers[s].pc = "submit"
  /\ UNCHANGED <<challenges, reply>>
  /\ SolverStep(s, [solvers[s] EXCEPT !.pc = AfterSolve("submit"),
                                      !.result = "submit"])

\* The ways waitForChallengeValid ends: valid, invalid or fetch error,
\* interrupted by Stop, ctx done, panic.
SolveResults ==
  {"ok", "invalid", "timeout", "panic"}
    \cup (IF stopChan = "closed" THEN {"interrupted"} ELSE {})

\* waitForChallengeValid returns or panics.
WaitForChallengeValid(s, result) ==
  /\ solvers[s].pc = "waitValid"
  /\ result \in SolveResults
  /\ UNCHANGED <<challenges, reply>>
  /\ SolverStep(s, [solvers[s] EXCEPT !.pc = AfterSolve(result),
                                      !.result = result])

\* The deferred teardownChallenge: the token is discarded.
TeardownChallenge(s) ==
  /\ solvers[s].pc = "teardown"
  /\ challenges' = discardToken(challenges, solvers[s].token)
  /\ UNCHANGED reply
  /\ SolverStep(s, [solvers[s] EXCEPT !.pc = "done",
                                      !.teardowns = Append(@, solvers[s].token)])

\* A responder that finds every token.
TokenFoundAlways(set, t) == TRUE

\* hChallenge: _, found := s.challenges[token].
TokenFound(set, t) == t \in set

\* hChallenge: the response to GET /.well-known/acme-challenge/{token};
\* reply writes the format followed by a newline.
hChallenge(set, t) ==
  IF ~TokenFound(set, t)
  THEN [status |-> 400, body |-> <<"unknown token", "\n">>]
  ELSE [status |-> 200, body |-> <<t, ".", accountThumbprint, "\n">>]

\* The worker is between its setup of a token and its teardown.
Solving(s) == solvers[s].pc \in {"submit", "waitValid", "teardown"}

\* Some worker has set the token up and torn it down, and none is solving it.
Finished(t) ==
  /\ \E s \in Solvers : t \in SeqToSet(solvers[s].teardowns)
  /\ \A s \in Solvers : ~(Solving(s) /\ solvers[s].token = t)

\* The responder serves a request for a token; the reply records what held
\* when it was served.
ChallengeRequest(t) ==
  /\ reply' = [token |-> t, registered |-> t \in challenges,
               finished |-> Finished(t),
               response |-> hChallenge(challenges, t)]
  /\ UNCHANGED <<challenges, solvers>>
  /\ UNCHANGED otherThanSolver /\ UNCHANGED vars

NextSolving ==
  \/ \E s \in Solvers, t \in Tokens : SolveChallenge(s, t)
  \/ \E s \in Solvers : SetupChallenge(s)
  \/ \E s \in Solvers, how \in {"error", "panic"} : SetupChallengeFail(s, how)
  \/ \E s \in Solvers : SubmitChallenge(s)
  \/ \E s \in Solvers : SubmitChallengeFail(s)
  \/ \E s \in Solvers, r \in {"ok", "invalid", "timeout", "panic", "interrupted"} :
       WaitForChallengeValid(s, r)
  \/ \E s \in Solvers : TeardownChallenge(s)
  \/ \E t \in RequestedTokens : ChallengeRequest(t)
  \/ StopClose /\ UNCHANGED svars

SpecSolving == InitSolving /\ [][NextSolving]_<<svars, vars>>

\* C14: for every challenge setup performed during an order (token
\* registered with the HTTP-01 responder) there is exactly one matching
\* teardown (token discarded), on the success path and on every failure path
\* (submit failure, challenge invalid, stop, ctx done, panic): the teardowns of
\* a worker are its setups, token by token, but for the one in progress.
C14_SetupTeardown ==
  \A s \in Solvers :
    LET c == solvers[s]
    IN IF Solving(s)
       THEN c.setups = Append(c.teardowns, c.token)
       ELSE c.setups = c.teardowns

\* C14 witness: a worker has torn down the tokens of two challenges, the last
\* after a panic in the wait for the challenge.
C14_Witness ==
  \E s \in Solvers :
    /\ solvers[s].pc = "done"
    /\ solvers[s].result = "panic"
    /\ Len(solvers[s].teardowns) = 2
    /\ solvers[s].teardowns = solvers[s].setups

\* C15: the HTTP-01 responder answers a request for
\* /.well-known/acme-challenge/{token} with 200 and the body
\* "{token}.{accountThumbprint}\n" if and only if the token is in the token set
\* at the time of the request, and with 400 otherwise; once the order that
\* registered a token has finished solving its challenge, a request for that
\* token gets 400.
C15_Responder ==
  reply # <<>> =>
    /\ reply.response.status \in {200, 400}
    /\ reply.response.status = 200 <=> reply.registered
    /\ reply.response.status = 200 =>
         reply.response.body = <<reply.token, ".", accountThumbprint, "\n">>
    /\ reply.finished => reply.response.status = 400

\* C15 witness: a request for a token got 400 after the order that had
\* registered it tore it down.
C15_Witness ==
  /\ reply # <<>>
  /\ reply.finished
  /\ reply.response.status = 400
  /\ \E s \in Solvers : solvers[s].setups = <<reply.token>>

\* ======================================================= CertificateRenewalTime

\* Times are in hours since an origin; validities are in days.
MaxValidity == 4

HoursPerDay == 24

\* time.Now() when the worker starts.
StartTime == 120

\* NotBefore of the leaf certificate: from four days ago to now.
NotBefores == {StartTime - 12 * k : k \in 0..8}

\* NotAfter - NotBefore of the leaf certificate, as the server chose it.
Lifetimes == {6, 18, 24, 48, 96, 192}

Max(a, b) == IF a >= b THEN a ELSE b

\* CertificateRenewalTime: NotAfter plus max(Validity/2, 1) days when Validity
\* is above one day, else NotAfter minus 12 hours.
CertificateRenewalTime(notAfter, validity) ==
  IF validity > 1
  THEN notAfter + HoursPerDay * Max(validity \div 2, 1)
  ELSE notAfter - 12

InitRenewal ==
  /\ ResponseIdle
  /\ ValidationIdle
  /\ OrderIdle
  /\ AccountsIdle
  /\ RequestsIdle
  /\ LifecycleIdle
  /\ NoncesIdle
  /\ PollingIdle
  /\ SolverIdle
  /\ \E nb \in NotBefores, l \in Lifetimes, v \in 0..MaxValidity :
       renewal = [pc |-> "loaded", now |-> StartTime, notBefore |-> nb,
                  notAfter |-> nb + l, validity |-> v, renewalTime |-> StartTime,
                  waited |-> FALSE]

RenewalStep(rec) ==
  /\ renewal' = rec
  /\ UNCHANGED otherThanRenewal /\ UNCHANGED vars

\* main: the worker holds a certificate, renewalTime is computed from it.
RenewalCompute ==
  /\ renewal.pc = "loaded"
  /\ RenewalStep([renewal EXCEPT !.pc = "loop",
       !.renewalTime = CertificateRenewalTime(renewal.notAfter, renewal.validity)])

\* main: renewalTime.After(now), the worker waits until the renewal time.
RenewalWait ==
  /\ renewal.pc = "loop"
  /\ renewal.renewalTime > renewal.now
  /\ RenewalStep([renewal EXCEPT !.pc = "wait"])

\* wait: the timer fires at the renewal time.
RenewalTimeReached ==
  /\ renewal.pc = "wait"
  /\ RenewalStep([renewal EXCEPT !.pc = "order", !.now = renewal.renewalTime,
                                 !.waited = TRUE])

\* main: the renewal time is not after now, the order starts at once.
RenewalNow ==
  /\ renewal.pc = "loop"
  /\ ~(renewal.renewalTime > renewal.now)
  /\ RenewalStep([renewal EXCEPT !.pc = "order"])

NextRenewal ==
  \/ RenewalCompute
  \/ RenewalWait
  \/ RenewalTimeReached
  \/ RenewalNow

SpecRenewal == InitRenewal /\ [][NextRenewal]_<<rvars, vars>>

\* NotBefore + (NotAfter - NotBefore)/2.
Midpoint(notBefore, notAfter) == notBefore + (notAfter - notBefore) \div 2

\* C16: the renewal time the worker waits for, computed from the leaf
\* certificate, is: immediately when NotAfter - now is less than 12 hours, and
\* otherwise the midpoint of the validity period,
\* NotBefore + (NotAfter - NotBefore)/2: the order of the renewal starts at
\* StartTime in the first case and at the later of the midpoint and StartTime
\* in the second.
C16_Original ==
  (renewal # <<>> /\ renewal.pc = "order") =>
    IF renewal.notAfter < StartTime + 12
    THEN ~renewal.waited /\ renewal.now = StartTime
    ELSE renewal.now = Max(Midpoint(renewal.notBefore, renewal.notAfter), StartTime)

\* ===================================================== claims on the worker

\* The errors of orderCertificate that tell the client was stopped
\* (ErrVerificationInterrupted) or the context was done
\* (ErrVerificationTimeout).
VerificationErrors == {"interrupted", "timeout"}

\* The last order of the worker failed with one of the two errors.
VerificationFailed(w) == workers[w].err \in VerificationErrors

\* C17: after an order fails with ErrVerificationInterrupted (client stopped)
\* or ErrVerificationTimeout (ctx deadline exceeded), the worker never submits
\* another order: it terminates without retrying, whether or not it holds a
\* certificate. No step takes the worker back into orderCertificate or into
\* the wait for a renewal, and the error stays the last one of the worker.
C17_NoRetryAfterVerificationError ==
  [][\A w \in Workers :
       VerificationFailed(w) =>
         /\ workers'[w].pc \notin OrderPcs \cup {"wait"}
         /\ workers'[w].err = workers[w].err]_vars

\* C17 witness: a worker that held a certificate has terminated after its
\* order was interrupted by Stop.
C17_Witness ==
  \E w \in Workers :
    /\ workers[w].err = "interrupted"
    /\ ContainsCertificate(workers[w].certData)
    /\ workers[w].pc = "done"

\* The events the worker emitted that carry a panic message.
PanicEvents(w) ==
  {i \in 1..Len(workers[w].emitted) : workers[w].emitted[i].ev = ErrEvent("panic")}

\* The worker is in the deferred recover function, sending the event of a panic.
Recovering(w) ==
  workers[w].pc = "sendEvent" /\ workers[w].pending = ErrEvent("panic")

\* The worker goroutines that called wg.Add and not yet wg.Done.
Running == {w \in Workers : workers[w].pc \notin {"idle", "done"}}

\* C18: a panic raised anywhere in a worker is recovered inside the worker:
\* the worker emits one error event carrying the panic message, then closes
\* its event channel and releases the client's wait group, and the panic
\* never propagates to the host process or to other workers. A recovering
\* worker has its channel open and goes on to the close; after its one panic
\* event, the last it emits, the worker is in the close, the Done or past
\* them; a worker that ended has closed its channel, and the wait group counts
\* the workers that did not end.
C18_PanicRecovered ==
  /\ wg = Cardinality(Running)
  /\ \A w \in Workers :
       /\ Recovering(w) =>
            /\ workers[w].next = "close"
            /\ workers[w].closed = 0
            /\ PanicEvents(w) = {}
       /\ PanicEvents(w) # {} =>
            /\ PanicEvents(w) = {Len(workers[w].emitted)}
            /\ workers[w].pc \in TerminationPcs
            /\ workers[w].pc = "close" <=> workers[w].closed = 0
       /\ workers[w].pc = "done" =>
            /\ workers[w].closed = 1
            /\ workers[w].pending = NoEvent

\* C18 witness: a worker that panicked in its first order has ended: one
\* event, that of the panic, its channel closed, the wait group released.
C18_Witness ==
  \E w \in Workers :
    /\ workers[w].pc = "done"
    /\ Len(workers[w].emitted) = 1
    /\ PanicEvents(w) = {1}
    /\ workers[w].closed = 1
    /\ wg = 0

\* ============================================= the workers of RequestCertificate

\* Calls of RequestCertificate in a run.
MaxRequests == 3

Calls == 1..MaxRequests

\* The certificate names the host asks for.
RequestNames == {"n1", "n2"}

\* What LoadCertificateData returns: a certificate, none (ErrCertificateNotFound),
\* or another error.
LoadResults(n) ==
  {[err |-> "", data |-> StoredData(n)],
   [err |-> "ErrCertificateNotFound", data |-> Nil],
   [err |-> "error", data |-> Nil]}

\* RequestCertificate: err != nil && err != ErrCertificateNotFound.
LoadFailed(loaded) == loaded.err \notin {"", "ErrCertificateNotFound"}

InitRequests ==
  /\ ResponseIdle
  /\ ValidationIdle
  /\ OrderIdle
  /\ AccountsIdle
  /\ LifecycleIdle
  /\ NoncesIdle
  /\ PollingIdle
  /\ SolverIdle
  /\ RenewalIdle
  /\ requests = [c \in Calls |-> [pc |-> "idle", name |-> "", certData |-> Nil]]

\* A step of a call of RequestCertificate or of its worker, with the new
\* count of the wait group.
RequestStep(c, rec, count) ==
  /\ requests' = [requests EXCEPT ![c] = rec]
  /\ wg' = count
  /\ UNCHANGED otherThanRequests
  /\ UNCHANGED <<dataStore, certificates, certificatesMutex, certificateWaiters,
                 certificateWaitersMutex, stopChan, stopPc, issued, waiters,
                 workers>>

\* RequestCertificate and startCertificateWorker: the data is loaded or made,
\* wg.Add(1), go w.main(); nothing looks for a worker of the same name.
RequestCertificateCall(c, n, ids, v, loaded) ==
  /\ requests[c].pc = "idle"
  /\ ~LoadFailed(loaded)
  /\ RequestStep(c, [pc |-> "running", name |-> n,
                     certData |-> RequestCertificateData(loaded.data, n, ids, v)],
                 wg + 1)

\* RequestCertificate: LoadCertificateData fails, no worker is started.
RequestCertificateError(c, n, loaded) ==
  /\ requests[c].pc = "idle"
  /\ LoadFailed(loaded)
  /\ RequestStep(c, [requests[c] EXCEPT !.pc = "failed", !.name = n], wg)

\* The goroutine of the worker ends: main returned, wg.Done().
WorkerEnds(c) ==
  /\ requests[c].pc = "running"
  /\ RequestStep(c, [requests[c] EXCEPT !.pc = "done"], wg - 1)

NextRequests ==
  \/ \E c \in Calls, n \in RequestNames, r \in Requests :
       \E loaded \in LoadResults(n) :
         RequestCertificateCall(c, n, r.ids, r.validity, loaded)
  \/ \E c \in Calls, n \in RequestNames :
       \E loaded \in LoadResults(n) : RequestCertificateError(c, n, loaded)
  \/ \E c \in Calls : WorkerEnds(c)

SpecRequests == InitRequests /\ [][NextRequests]_<<qvars, vars>>

\* The running workers of a certificate name.
RunningWorkers(n) ==
  {c \in Calls : requests[c].pc = "running" /\ requests[c].name = n}

\* C19: at every moment there is at most one running certificate worker per
\* certificate name, for every sequence of RequestCertificate calls
\* (including repeated calls with the same name).
C19_Original ==
  requests # <<>> => \A n \in RequestNames : Cardinality(RunningWorkers(n)) <= 1

\* ================================================================ Client.Start

Clients == {"c1", "c2"}

\* An AccountData without URI and key; account URIs are numbered from 1.
NoAccount == [uri |-> 0, key |-> ""]

\* AccountData.MarshalJSON: the URI and the PKCS #8 encoding of the key.
MarshalAccount(a) == [uri |-> a.uri, private_key_data |-> <<"pkcs8", a.key>>]

\* AccountData.UnmarshalJSON: the URI and the key parsed from its encoding.
UnmarshalAccount(f) == [uri |-> f.uri, key |-> f.private_key_data[2]]

InitClient ==
  [pc |-> "idle", accountData |-> NoAccount, local |-> NoAccount,
   loadErr |-> "", found |-> NoAccount, posts |-> 0, stores |-> 0,
   after |-> {}, err |-> ""]

InitAccounts ==
  /\ ResponseIdle
  /\ ValidationIdle
  /\ OrderIdle
  /\ LifecycleIdle
  /\ NoncesIdle
  /\ PollingIdle
  /\ SolverIdle
  /\ RenewalIdle
  /\ RequestsIdle
  /\ \E held \in BOOLEAN :
       /\ accountFile = IF held THEN MarshalAccount([uri |-> 1, key |-> "k0"])
                                ELSE NoFile
       /\ serverAccounts = IF held THEN 1 ELSE 0
  /\ clients = [c \in Clients |-> InitClient]

\* A step of Start in one client.
StartStep(c, rec) ==
  /\ clients' = [clients EXCEPT ![c] = rec]
  /\ UNCHANGED otherThanAccounts /\ UNCHANGED vars

Failed(rec, why) == [rec EXCEPT !.pc = "failed", !.err = why]

\* Start: updateDirectory succeeds. The clients whose Start has returned nil
\* by now are recorded.
UpdateDirectory(c) ==
  /\ clients[c].pc = "idle"
  /\ UNCHANGED <<accountFile, serverAccounts>>
  /\ StartStep(c, [clients[c] EXCEPT !.pc = "load",
       !.after = {d \in Clients : clients[d].pc = "started"}])

\* Start: updateDirectory fails.
UpdateDirectoryFail(c) ==
  /\ clients[c].pc = "idle"
  /\ UNCHANGED <<accountFile, serverAccounts>>
  /\ StartStep(c, Failed(clients[c], "directory"))

\* A Start that creates an account on every load error.
CreatesOnAnyError(err) == err # "ok"

\* Start: errors.Is(err, ErrAccountNotFound).
Creates(err) == err = "ErrAccountNotFound"

\* Start after LoadAccountData returned.
Loaded(rec, err, data) ==
  LET r == [rec EXCEPT !.loadErr = err, !.found = data]
  IN IF err = "ok" THEN [r EXCEPT !.pc = "install", !.local = data]
     ELSE IF Creates(err) THEN [r EXCEPT !.pc = "create"]
     ELSE Failed(r, "load")

\* LoadAccountData: the account of the store, ErrAccountNotFound without one.
LoadAccountData(c) ==
  /\ clients[c].pc = "load"
  /\ UNCHANGED <<accountFile, serverAccounts>>
  /\ IF accountFile = NoFile
     THEN StartStep(c, Loaded(clients[c], "ErrAccountNotFound", NoAccount))
     ELSE StartStep(c, Loaded(clients[c], "ok", UnmarshalAccount(accountFile)))

\* LoadAccountData fails with another error (the file cannot be read or
\* decoded).
LoadAccountDataFail(c) ==
  /\ clients[c].pc = "load"
  /\ UNCHANGED <<accountFile, serverAccounts>>
  /\ StartStep(c, Loaded(clients[c], "error", NoAccount))

\* createAccount: a key is generated and installed, POST newAccount succeeds,
\* the Location header is the URI of the account.
CreateAccount(c) ==
  /\ clients[c].pc = "create"
  /\ serverAccounts' = serverAccounts + 1
  /\ UNCHANGED accountFile
  /\ LET a == [uri |-> serverAccounts + 1, key |-> c]
     IN StartStep(c, [clients[c] EXCEPT !.pc = "store", !.local = a,
                        !.accountData = a, !.posts = @ + 1])

\* createAccount fails: no key, or the request fails after the key was
\* installed.
CreateAccountFail(c, why) ==
  /\ clients[c].pc = "create"
  /\ UNCHANGED <<accountFile, serverAccounts>>
  /\ IF why = "key"
     THEN StartStep(c, Failed(clients[c], "create"))
     ELSE StartStep(c, Failed([clients[c] EXCEPT
            !.accountData = [uri |-> 0, key |-> c], !.posts = @ + 1], "create"))

\* StoreAccountData writes the account.
StoreAccountData(c) ==
  /\ clients[c].pc = "store"
  /\ accountFile' = MarshalAccount(clients[c].local)
  /\ UNCHANGED serverAccounts
  /\ StartStep(c, [clients[c] EXCEPT !.pc = "install", !.stores = @ + 1])

\* StoreAccountData fails.
StoreAccountDataFail(c) ==
  /\ clients[c].pc = "store"
  /\ UNCHANGED <<accountFile, serverAccounts>>
  /\ StartStep(c, Failed([clients[c] EXCEPT !.stores = @ + 1], "store"))

\* Start: c.accountData = accountData, the responder is started; Start
\* returns nil.
InstallAccount(c) ==
  /\ clients[c].pc = "install"
  /\ UNCHANGED <<accountFile, serverAccounts>>
  /\ StartStep(c, [clients[c] EXCEPT !.pc = "started",
                                     !.accountData = clients[c].local])

\* Start: the account is installed, the thumbprint or the responder fails.
InstallAccountFail(c) ==
  /\ clients[c].pc = "install"
  /\ UNCHANGED <<accountFile, serverAccounts>>
  /\ StartStep(c, Failed([clients[c] EXCEPT !.accountData = clients[c].local],
                         "solver"))

NextAccounts ==
  \/ \E c \in Clients : UpdateDirectory(c)
  \/ \E c \in Clients : UpdateDirectoryFail(c)
  \/ \E c \in Clients : LoadAccountData(c)
  \/ \E c \in Clients : LoadAccountDataFail(c)
  \/ \E c \in Clients : CreateAccount(c)
  \/ \E c \in Clients, why \in {"key", "request"} : CreateAccountFail(c, why)
  \/ \E c \in Clients : StoreAccountData(c)
  \/ \E c \in Clients : StoreAccountDataFail(c)
  \/ \E c \in Clients : InstallAccount(c)
  \/ \E c \in Clients : InstallAccountFail(c)

SpecAccounts == InitAccounts /\ [][NextAccounts]_<<avars, vars>>

\* C20: Client.Start creates an account (POST newAccount, then
\* StoreAccountData) only when LoadAccountData returns ErrAccountNotFound;
\* when the store already holds an account Start installs it without
\* contacting newAccount, so two clients started one after the other on the
\* same store use the same account URI; any other load error aborts Start.
C20_StartAccount ==
  clients # <<>> =>
    \A c \in Clients :
      LET r == clients[c]
      IN /\ r.posts > 0 => r.loadErr = "ErrAccountNotFound"
         /\ r.stores > 0 => r.posts > 0
         /\ r.loadErr = "ok" =>
              /\ r.posts = 0 /\ r.stores = 0
              /\ r.found.uri # 0
              /\ r.pc = "started" => r.accountData = r.found
         /\ r.loadErr = "error" =>
              /\ r.pc = "failed" /\ r.err = "load"
              /\ r.posts = 0 /\ r.stores = 0
              /\ r.accountData = NoAccount
         /\ r.pc = "started" =>
              /\ r.accountData.uri # 0
              /\ \A d \in r.after : clients[d].accountData.uri = r.accountData.uri

\* C20 witness: the first client created the account of an empty store, the
\* second, started after the first returned, loaded it without a POST.
C20_Witness ==
  /\ clients # <<>>
  /\ \E c, d \in Clients :
       /\ clients[c].pc = "started" /\ clients[c].posts = 1
       /\ clients[d].pc = "started" /\ clients[d].posts = 0
       /\ c \in clients[d].after
       /\ clients[d].accountData = clients[c].accountData

\* ============================================================ the steps of an order

\* Authorizations of an order.
MaxAuths == 2

\* time.Now() in orderCertificate, in days since an origin.
OrderTime == 10

\* The challenge selectAuthorizationChallenge finds in an authorization: one
\* to solve, one already valid, none that is supported.
AuthKinds == {"pending", "valid", "none"}

AuthLists == UNION {[1..n -> AuthKinds] : n \in 0..MaxAuths}

\* A *time.Time that is nil.
NoTime == [set |-> FALSE, t |-> 0]

\* A *time.Time that points to a time.
Time(t) == [set |-> TRUE, t |-> t]

\* An order built without the validity of the certificate.
NewOrderNoDates(ids, validity, now) ==
  [identifiers |-> ids, notBefore |-> NoTime, notAfter |-> NoTime]

\* orderCertificate: the NewOrder of the worker's identifiers, with
\* notBefore = now and notAfter = now.AddDate(0, 0, Validity) when the
\* validity is not zero.
NewOrder(ids, validity, now) ==
  IF validity # 0
  THEN [identifiers |-> ids, notBefore |-> Time(now),
        notAfter |-> Time(now + validity)]
  ELSE [identifiers |-> ids, notBefore |-> NoTime, notAfter |-> NoTime]

\* The JSON object of a NewOrder: notBefore and notAfter are omitempty.
EncodeNewOrder(o) ==
  {<<"identifiers", o.identifiers>>}
    \cup (IF o.notBefore.set THEN {<<"notBefore", o.notBefore.t>>} ELSE {})
    \cup (IF o.notAfter.set THEN {<<"notAfter", o.notAfter.t>>} ELSE {})

\* The fields of a JSON object.
Fields(json) == {f[1] : f \in json}

InitOrder ==
  /\ ResponseIdle
  /\ ValidationIdle
  /\ LifecycleIdle
  /\ NoncesIdle
  /\ PollingIdle
  /\ SolverIdle
  /\ RenewalIdle
  /\ RequestsIdle
  /\ AccountsIdle
  /\ \E auths \in AuthLists, v \in 0..MaxValidity :
       ord = [pc |-> "new", validity |-> v, ids |-> <<"a.example">>,
              auths |-> auths, idx |-> 0, failing |-> FALSE,
              body |-> {}, chain |-> <<>>, event |-> <<>>, trace |-> <<>>]

\* A step of the order: the step and its outcome are recorded.
Advance(rec, step, ok, pc) ==
  /\ ord' = [rec EXCEPT !.pc = pc,
               !.trace = Append(@, [step |-> step, auth |-> ord.idx, ok |-> ok])]
  /\ UNCHANGED otherThanOrder /\ UNCHANGED vars

\* validateAuthorizations going on after the first authorization only.
AfterAuthorizationFirst(rec) == [rec EXCEPT !.pc = "ready", !.idx = 0]

\* validateAuthorizations: the next authorization of the list, finalizeOrder
\* after the last.
AfterAuthorization(rec) ==
  IF rec.idx < Len(rec.auths)
  THEN [rec EXCEPT !.pc = "fetch", !.idx = @ + 1]
  ELSE [rec EXCEPT !.pc = "ready", !.idx = 0]

\* orderCertificate: the order is built and submitted.
SubmitNewOrder(ok) ==
  /\ ord.pc = "new"
  /\ Advance([ord EXCEPT !.body =
                EncodeNewOrder(NewOrder(ord.ids, ord.validity, OrderTime))],
             "submit", ok, IF ok THEN "fetchOrder" ELSE "failed")

\* validateAuthorizations: fetchOrder, then the first authorization.
FetchOrder(ok) ==
  /\ ord.pc = "fetchOrder"
  /\ Advance(IF ok THEN AfterAuthorization(ord) ELSE ord, "fetchOrder", ok,
             IF ok THEN AfterAuthorization(ord).pc ELSE "failed")

\* validateAuthorizations: fetchAuthorization.
FetchAuthorization(ok) ==
  /\ ord.pc = "fetch"
  /\ Advance(ord, "fetch", ok, IF ok THEN "select" ELSE "failed")

\* validateAuthorization: selectAuthorizationChallenge; no challenge is an
\* error, a valid one ends the authorization.
SelectChallenge ==
  /\ ord.pc = "select"
  /\ LET kind == ord.auths[ord.idx]
     IN CASE kind = "none" -> Advance(ord, "select", FALSE, "failed")
          [] kind = "valid" ->
               Advance(AfterAuthorization(ord), "select", TRUE,
                       AfterAuthorization(ord).pc)
          [] OTHER -> Advance(ord, "select", TRUE, "setup")

\* solveChallenge: setupChallenge; the teardown is deferred after a success.
OrderSetupChallenge(ok) ==
  /\ ord.pc = "setup"
  /\ Advance(ord, "setup", ok, IF ok THEN "submitChallenge" ELSE "failed")

\* solveChallenge: submitChallenge; a failure returns through the teardown.
OrderSubmitChallenge(ok) ==
  /\ ord.pc = "submitChallenge"
  /\ Advance([ord EXCEPT !.failing = ~ok], "submitChallenge", ok,
             IF ok THEN "waitChallenge" ELSE "teardown")

\* solveChallenge: waitForChallengeValid, then the return through the teardown.
OrderWaitForChallengeValid(ok) ==
  /\ ord.pc = "waitChallenge"
  /\ Advance([ord EXCEPT !.failing = ~ok], "waitChallenge", ok, "teardown")

\* The deferred teardownChallenge; solveChallenge returns.
OrderTeardownChallenge ==
  /\ ord.pc = "teardown"
  /\ Advance(ord, "teardown", TRUE, IF ord.failing THEN "failed" ELSE "waitAuthz")

\* validateAuthorization: waitForAuthorizationValid.
WaitForAuthorizationValid(ok) ==
  /\ ord.pc = "waitAuthz"
  /\ IF ok
     THEN Advance(AfterAuthorization(ord), "waitAuthz", TRUE,
                  AfterAuthorization(ord).pc)
     ELSE Advance(ord, "waitAuthz", FALSE, "failed")

\* finalizeOrder: waitForOrderReady.
OrderWaitForOrderReady(ok) ==
  /\ ord.pc = "ready"
  /\ Advance(ord, "ready", ok, IF ok THEN "finalize" ELSE "failed")

\* finalizeOrder: the private key, the CSR, the finalize request.
OrderFinalize(ok) ==
  /\ ord.pc = "finalize"
  /\ Advance(ord, "finalize", ok, IF ok THEN "valid" ELSE "failed")

\* finalizeOrder: waitForOrderValid, the order has a certificate URI.
OrderWaitForOrderValid(ok) ==
  /\ ord.pc = "valid"
  /\ Advance(ord, "valid", ok, IF ok THEN "download" ELSE "failed")

\* The chain the server issues: for the dates of the order, or for its
\* default period when the order has none.
IssuedChain(json) ==
  IF "notAfter" \in Fields(json)
  THEN <<[notBefore |-> CHOOSE t \in 0..100 : <<"notBefore", t>> \in json,
          notAfter |-> CHOOSE t \in 0..100 : <<"notAfter", t>> \in json]>>
  ELSE <<[notBefore |-> OrderTime, notAfter |-> OrderTime + 90]>>

\* downloadCertificate: the chain is downloaded and decoded (a body without
\* certificate decodes to an empty chain).
OrderDownload(ok, empty) ==
  /\ ord.pc = "download"
  /\ ~ok => ~empty
  /\ Advance([ord EXCEPT !.chain = IF ok /\ ~empty THEN IssuedChain(ord.body)
                                   ELSE <<>>],
             "download", ok, IF ok THEN "persist" ELSE "failed")

\* downloadCertificate: StoreCertificateData.
OrderPersist(ok) ==
  /\ ord.pc = "persist"
  /\ Advance(ord, "persist", ok, IF ok THEN "ordered" ELSE "failed")

\* main after orderCertificate returned nil: the renewal time is computed
\* from the leaf certificate (a panic without one), then the certificate is
\* published.
OrderPublish ==
  /\ ord.pc = "ordered"
  /\ IF Len(ord.chain) = 0
     THEN Advance(ord, "publish", FALSE, "panicked")
     ELSE Advance([ord EXCEPT !.event = ord.chain], "publish", TRUE, "published")

NextOrder ==
  \/ \E ok \in BOOLEAN : SubmitNewOrder(ok)
  \/ \E ok \in BOOLEAN : FetchOrder(ok)
  \/ \E ok \in BOOLEAN : FetchAuthorization(ok)
  \/ SelectChallenge
  \/ \E ok \in BOOLEAN : OrderSetupChallenge(ok)
  \/ \E ok \in BOOLEAN : OrderSubmitChallenge(ok)
  \/ \E ok \in BOOLEAN : OrderWaitForChallengeValid(ok)
  \/ OrderTeardownChallenge
  \/ \E ok \in BOOLEAN : WaitForAuthorizationValid(ok)
  \/ \E ok \in BOOLEAN : OrderWaitForOrderReady(ok)
  \/ \E ok \in BOOLEAN : OrderFinalize(ok)
  \/ \E ok \in BOOLEAN : OrderWaitForOrderValid(ok)
  \/ \E ok, empty \in BOOLEAN : OrderDownload(ok, empty)
  \/ \E ok \in BOOLEAN : OrderPersist(ok)
  \/ OrderPublish

SpecOrder == InitOrder /\ [][NextOrder]_<<ovars, vars>>

\* C21: an order for a certificate with validity 0 is submitted without
\* notBefore and notAfter, and still yields a certificate event with a
\* non-empty chain; an order with validity d > 0 carries notBefore = now and
\* notAfter = now + d days.
C21_OrderDates ==
  (ord # <<>> /\ ord.pc # "new") =>
    /\ ord.validity = 0 => Fields(ord.body) = {"identifiers"}
    /\ ord.validity > 0 =>
         ord.body = {<<"identifiers", ord.ids>>, <<"notBefore", OrderTime>>,
                     <<"notAfter", OrderTime + ord.validity>>}
    /\ ord.pc = "published" => Len(ord.event) > 0

\* C21 witness: an order of validity 0 ended with a certificate event.
C21_Witness ==
  /\ ord # <<>>
  /\ ord.validity = 0
  /\ ord.pc = "published"
  /\ Len(ord.event) > 0

\* The steps of one authorization, in the order validateAuthorization and
\* solveChallenge take them: all of them for a challenge to solve, the first
\* two for a challenge that is valid or missing.
AuthSteps(a, kind) ==
  LET st(name) == [step |-> name, auth |-> a]
  IN IF kind = "pending"
     THEN <<st("fetch"), st("select"), st("setup"), st("submitChallenge"),
            st("waitChallenge"), st("teardown"), st("waitAuthz")>>
     ELSE <<st("fetch"), st("select")>>

RECURSIVE AuthsSteps(_, _)
AuthsSteps(auths, a) ==
  IF a > Len(auths) THEN <<>>
  ELSE AuthSteps(a, auths[a]) \o AuthsSteps(auths, a + 1)

\* The steps of an order that succeeds, in order.
ExpectedSteps(auths) ==
  LET st(name) == [step |-> name, auth |-> 0]
  IN <<st("submit"), st("fetchOrder")>> \o AuthsSteps(auths, 1)
       \o <<st("ready"), st("finalize"), st("valid"), st("download"),
            st("persist"), st("publish")>>

\* The first n steps the order took are the first steps of an order that
\* succeeds.
StepsInOrder(n) ==
  /\ n <= Len(ExpectedSteps(ord.auths))
  /\ \A i \in 1..n :
       [step |-> ord.trace[i].step, auth |-> ord.trace[i].auth]
         = ExpectedSteps(ord.auths)[i]

\* The steps of the order that failed.
FailedSteps == {i \in 1..Len(ord.trace) : ~ord.trace[i].ok}

\* The steps of the order up to the first that failed.
UpToFailure ==
  IF FailedSteps = {} THEN Len(ord.trace)
  ELSE CHOOSE i \in FailedSteps : \A j \in FailedSteps : i <= j

\* C23 as stated: within one order the worker's steps occur in this order:
\* submit order; then for each authorization in the order's list, one after
\* the other: fetch, select challenge, set up, submit challenge, wait for
\* challenge valid, tear down, wait for authorization valid; only after all
\* authorizations: wait for order ready, finalize with a CSR, wait for order
\* valid, download the chain, persist it in the data store. No later step runs
\* when an earlier one failed.
C23_Original ==
  ord # <<>> =>
    /\ StepsInOrder(Len(ord.trace))
    /\ \A i \in FailedSteps : i = Len(ord.trace)

\* C23 amended: the steps occur in that order, and when a step failed no
\* later step runs but the teardown of the challenge that was set up, which
\* follows a failed submit of the challenge and a failed wait for it.
C23_StepOrder ==
  ord # <<>> =>
    /\ StepsInOrder(UpToFailure)
    /\ \A i \in FailedSteps :
         \/ i = Len(ord.trace)
         \/ /\ i + 1 = Len(ord.trace)
            /\ ord.trace[i].step \in {"submitChallenge", "waitChallenge"}
            /\ ord.trace[i + 1].step = "teardown"
            /\ ord.trace[i + 1].auth = ord.trace[i].auth
            /\ ord.pc = "failed"
    /\ ord.pc = "failed" => FailedSteps # {}

\* C23 witness: an order with two authorizations to solve took every step up
\* to the persisted chain.
C23_Witness ==
  /\ ord # <<>>
  /\ ord.pc = "ordered"
  /\ Len(ord.auths) = 2
  /\ \A a \in 1..2 : ord.auths[a] = "pending"
  /\ Len(ord.trace) = 21
  /\ FailedSteps = {}

\* ================================================ claims on the lifecycle, second part

\* C22: storeCertificate always returns: no interleaving of
\* storeCertificate(n) with WaitForCertificate(n) callers deadlocks, including
\* a waiter that leaves because the stop channel closed or its ctx was
\* cancelled while storeCertificate holds the registry and waiter locks and is
\* sending on that waiter's channel.
C22_Original == \A w \in Workers : Storing(w) ~> ~Storing(w)

\* The certificate events the worker emitted.
CertEvents(w) == EmittedOfKind(w, "cert")

\* C24: for each certificate a worker obtains or loads, the snapshot is
\* stored in the registry before the event for it is emitted on the event
\* channel, and both happen before the worker starts waiting for that
\* certificate's renewal time: the event being sent is that of the snapshot the
\* registry holds, a worker inside storeCertificate has emitted one event less
\* than it has snapshots, and a worker that waits for the renewal has emitted
\* the event of the snapshot the registry holds as its last event.
C24_PublishOrder ==
  \A w \in Workers :
    LET r == workers[w]
    IN /\ (r.pc = "sendEvent" /\ r.pending.kind = "cert") =>
            /\ r.pending = CertEvent(r.snap)
            /\ Certificate(r.snap.name) = r.snap
            /\ Cardinality(CertEvents(w)) + 1 = r.published
       /\ Storing(w) => Cardinality(CertEvents(w)) = r.published
       /\ r.pc = "wait" =>
            /\ r.published > 0
            /\ Certificate(r.snap.name) = r.snap
            /\ Cardinality(CertEvents(w)) = r.published
            /\ r.emitted[Len(r.emitted)].ev = CertEvent(r.snap)

\* C24 witness: a worker waits for the renewal of the certificate it
\* obtained, after the one it loaded.
C24_Witness ==
  \E w \in Workers :
    /\ workers[w].pc = "wait"
    /\ workers[w].published = 2
    /\ workers[w].snap.key.src = "stored"
    /\ Len(workers[w].received) = 2

\* This step is the publish step of the worker: onCertificateDataReady takes
\* the snapshot and calls storeCertificate.
PublishStarts(w) == workers[w].pc # "storeLock" /\ workers'[w].pc = "storeLock"

\* The publish step leaves the worker with an empty chain and the key of the
\* snapshot, which carries the chain the worker had.
PublishKeepsKey(w) ==
  PublishStarts(w) =>
    /\ workers'[w].certData.chain = <<>>
    /\ workers'[w].certData.key = workers'[w].snap.key
    /\ workers'[w].snap.key = workers[w].certData.key
    /\ workers'[w].snap.chain = workers[w].certData.chain
    /\ workers'[w].snap.chain # <<>>

\* A worker that has a private key keeps it.
KeyKept(w) ==
  (workers[w].pc # "idle" /\ workers[w].certData.key # NilKey) =>
    workers'[w].certData.key = workers[w].certData.key

\* C25: after each publish step the worker's own certificate data has an
\* empty chain and the same private key as the published snapshot; the
\* private key is generated only when the worker has none, so every renewal of
\* one worker signs its CSR with the same private key.
C25_ChainMovedKeyKept ==
  /\ [](\A w \in Workers :
          (Storing(w) \/ workers[w].pc = "wait") =>
            /\ workers[w].certData.chain = <<>>
            /\ workers[w].certData.key = workers[w].snap.key
            /\ workers[w].certData.key # NilKey)
  /\ [][\A w \in Workers : PublishStarts(w) => PublishKeepsKey(w)]_vars
  /\ [][\A w \in Workers : KeyKept(w)]_vars

\* C25 witness: the worker publishes the certificate of a renewal, signed
\* with the key of the certificate it had loaded and published before.
C25_Witness ==
  \E w \in Workers :
    /\ Storing(w)
    /\ workers[w].published = 1
    /\ workers[w].snap.key = StoredKey
    /\ workers[w].snap.chain = <<[src |-> "server", serial |-> 1]>>
    /\ workers[w].certData.chain = <<>>

\* The worker holds a chain it downloaded that the data store does not hold.
Unpersisted(w) ==
  LET d == workers[w].certData
  IN /\ d.chain # <<>>
     /\ d.chain[1].src = "server"
     /\ dataStore[d.name].chain # d.chain

\* The chain is in no registry entry and in no certificate event, emitted or
\* being sent.
Unpublished(chain) ==
  /\ \A n \in DOMAIN certificates : certificates[n].chain # chain
  /\ \A w \in Workers :
       /\ workers[w].pending.data.chain # chain
       /\ \A i \in CertEvents(w) : workers[w].emitted[i].ev.data.chain # chain

\* The publish step takes the data the data store holds under the name.
PublishesPersisted(w) ==
  PublishStarts(w) =>
    /\ dataStore'[workers'[w].snap.name].chain = workers'[w].snap.chain
    /\ dataStore'[workers'[w].snap.name].key = workers'[w].snap.key

\* C26: a certificate obtained from an order is published only after
\* StoreCertificateData succeeded: every publish step takes the chain and the
\* key the data store holds under the name, and a downloaded chain the data
\* store does not hold, as after a failure of StoreCertificateData, is in no
\* registry entry and in no certificate event.
C26_PublishAfterPersist ==
  /\ [](\A w \in Workers : Unpersisted(w) => Unpublished(workers[w].certData.chain))
  /\ [][\A w \in Workers : PublishesPersisted(w)]_vars

\* C26 witness: StoreCertificateData failed for the chain the worker
\* downloaded; the worker waits for the retry with the chain in its data, the
\* data store and the registry still hold the certificate it loaded.
C26_Witness ==
  \E w \in Workers :
    /\ workers[w].pc = "retryWait"
    /\ workers[w].err = "error"
    /\ Unpersisted(w)
    /\ workers[w].published = 1
    /\ dataStore[workers[w].certData.name].chain = <<StoredCert>>
    /\ Certificate(workers[w].certData.name).chain = <<StoredCert>>

\* This step is the start of an order attempt: main calls orderCertificate.
StartsOrder(w) == workers[w].pc # "order" /\ workers'[w].pc = "order"

\* C27, as stated: once Client.Stop() has closed the stop channel, no worker
\* starts another order attempt.
C27_Original ==
  [][\A w \in Workers : stopChan = "closed" => ~StartsOrder(w)]_vars

\* C28, as stated: from a worker's setup of a challenge token until that
\* worker's teardown the token is in the token set of the responder, which
\* answers 200 for it, whatever the other workers do.
C28_Original ==
  \A s \in Solvers :
    Solving(s) =>
      /\ solvers[s].token \in challenges
      /\ hChallenge(challenges, solvers[s].token).status = 200

\* The positions of the worker inside the retry loop of main.
RetryPcs == OrderPcs \cup {"retryWait"}

\* The delays of the retry loop, in seconds.
RetryDelays == {1, 2, 4, 8, 16, 32, 60}

\* The steps of the retry loop: the first attempt of a renewal cycle starts
\* with a delay of 1 s, an attempt and its failure leave the delay as it is,
\* and the wait before the next attempt replaces it by the minimum of its
\* double and 60 s.
BackoffStep(w) ==
  LET r == workers[w]
      n == workers'[w]
  IN /\ (r.pc \notin RetryPcs /\ n.pc = "order") => n.retryDelay = 1
     /\ (r.pc \in OrderPcs /\ n.pc \in RetryPcs) => n.retryDelay = r.retryDelay
     /\ (r.pc = "retryWait" /\ n.pc = "order") =>
          n.retryDelay = (IF 2 * r.retryDelay < 60 THEN 2 * r.retryDelay ELSE 60)

\* C29: within one renewal cycle the delays between consecutive failed order
\* attempts are 1, 2, 4, 8, 16, 32, 60, 60, ... seconds: the delay a worker
\* waits is one of these, each is the minimum of twice the previous one and
\* 60 s, and every new renewal cycle starts again at 1 s.
C29_Backoff ==
  /\ [](\A w \in Workers :
         workers[w].pc \in RetryPcs => workers[w].retryDelay \in RetryDelays)
  /\ [][\A w \in Workers : BackoffStep(w)]_vars

\* C29 witness: a worker whose order keeps failing after StoreCertificateData
\* failed for the chain it downloaded waits 60 s before the next attempt.
C29_Witness ==
  \E w \in Workers :
    /\ workers[w].pc = "retryWait"
    /\ workers[w].retryDelay = 60
    /\ workers[w].orders = 2
    /\ Unpersisted(w)

\* ================================================= claims on the nonce pool

\* This step is a response with a Replay-Nonce header: the server issues its
\* next nonce.
NonceIssued == serverNonces' = serverNonces + 1

\* This step deposits the nonce of the response in the pool, once.
Deposited == nonces' = Append(nonces, serverNonces')

\* The caller whose request the response answers is in fetchNonce.
FetchResponse == \E r \in Callers : callers[r].pc = "fetch" /\ callers'[r].pc # "fetch"

\* C30, as stated: every response that carries a Replay-Nonce header deposits
\* that nonce in the pool.
C30_Original == [][NonceIssued => Deposited]_nvars

\* C30, amended: every response to a signed request that carries a
\* Replay-Nonce header deposits that nonce in the pool exactly once; the
\* Replay-Nonce of the response to HEAD newNonce is handed to the caller of
\* fetchNonce, which signs its request with it, and is not deposited. The pool
\* holds each nonce at most once, in the order of issue.
C30_Deposit ==
  /\ [](\A i \in 1..Len(nonces) :
         /\ nonces[i] \in 1..serverNonces
         /\ \A j \in 1..Len(nonces) : i < j => nonces[i] < nonces[j])
  /\ [][NonceIssued =>
         IF FetchResponse
         THEN /\ nonces' = nonces
              /\ \E r \in Callers : /\ callers[r].pc = "fetch"
                                    /\ callers'[r].pc = "sign"
                                    /\ callers'[r].nonce = serverNonces'
         ELSE Deposited]_nvars

\* C30 witness: the first nonce came from HEAD newNonce and was used for the
\* request, the second came with the response and is in the pool.
C30_Witness ==
  /\ serverNonces = 2
  /\ nonces = <<2>>
  /\ \E r \in Callers : callers[r].used = <<1>> /\ callers[r].result = "ok"

\* ============================================ claims on the polling loops

\* This step ends the wait between two polls.
WaitEnds == poll.pc = "wait" /\ poll'.pc # "wait"

\* How a wait can end: the timer (the loop goes on to the next fetch), the
\* closed stop channel, the context that ended with a deadline or otherwise.
WaitOutcome ==
  \/ /\ poll'.pc = "fetch"
     /\ poll'.result = ""
     /\ poll'.fetches = poll.fetches
  \/ /\ poll'.pc = "done"
     /\ poll'.result = "ErrVerificationInterrupted"
     /\ stopChan = "closed"
  \/ /\ poll'.pc = "done"
     /\ poll'.result = "ErrVerificationTimeout"
     /\ poll.ctx = "deadline"
  \/ /\ poll'.pc = "done"
     /\ poll'.result = "canceled"
     /\ poll.ctx = "canceled"

\* C31: the wait between two polls ends with the delay elapsing (the loop
\* continues), with the stop channel closed (ErrVerificationInterrupted) or
\* with ctx done (ErrVerificationTimeout when the cause is a deadline, the
\* error of ctx otherwise); a loop that returned never fetches again.
C31_WaitEnds ==
  /\ [][WaitEnds => WaitOutcome]_<<pvars, vars>>
  /\ [][poll.pc = "done" => poll' = poll]_<<pvars, vars>>

\* C31 witness: after a first wait that ended with the timer and a second
\* fetch, the second wait ended with the deadline of ctx.
C31_Witness ==
  /\ poll.pc = "done"
  /\ poll.result = "ErrVerificationTimeout"
  /\ poll.fetches = 2
  /\ stopChan = "open"

\* This step is the switch of the loop on the status it fetched.
SwitchStep(loop) ==
  poll.loop = loop /\ poll.pc = "status" /\ poll'.pc # "status"

\* The switch returns the result, without another fetch.
Returns(result) ==
  /\ poll'.pc = "done"
  /\ poll'.result = result
  /\ poll'.fetches = poll.fetches

\* The switch falls through to waitForVerification, after which the loop
\* fetches again.
WaitsToFetchAgain ==
  /\ poll'.pc = "wait"
  /\ poll'.result = ""
  /\ poll'.fetches = poll.fetches

\* The loop returned without error only on a status of the first set, and
\* waits only on a status of the second.
ReturnsOnlyOn(loop, oks, polls) ==
  poll.loop = loop =>
    /\ (poll.pc = "done" /\ poll.result = "ok") => poll.status \in oks
    /\ poll.pc = "wait" => poll.status \in polls

\* C32: waitForOrderReady returns the order only when a fetched status is
\* ready; it waits and fetches again while the status is pending; it returns
\* an error as soon as a fetched status is processing, valid, invalid (the
\* order's error when present) or unknown.
C32_OrderReady ==
  /\ []ReturnsOnlyOn("orderReady", {"ready"}, {"pending"})
  /\ [][SwitchStep("orderReady") =>
         CASE poll.status = "pending" -> WaitsToFetchAgain
           [] poll.status = "ready" -> Returns("ok")
           [] poll.status \in {"processing", "valid"} ->
                Returns("unexpected status")
           [] poll.status = "invalid" ->
                Returns(IF poll.problem THEN "problem" ELSE "unknown error")
           [] OTHER -> Returns("unknown status")]_<<pvars, vars>>

\* C32 witness: waitForOrderReady returned the order at its second fetch,
\* after a fetch with the status pending.
C32_Witness ==
  /\ poll.loop = "orderReady"
  /\ poll.pc = "done"
  /\ poll.result = "ok"
  /\ poll.status = "ready"
  /\ poll.fetches = 2

\* C33: waitForOrderValid returns the order only when a fetched status is
\* valid; it waits and fetches again while the status is ready or
\* processing; it returns an error as soon as a fetched status is pending,
\* invalid (the order's error when present) or unknown.
C33_OrderValid ==
  /\ []ReturnsOnlyOn("orderValid", {"valid"}, {"ready", "processing"})
  /\ [][SwitchStep("orderValid") =>
         CASE poll.status \in {"ready", "processing"} -> WaitsToFetchAgain
           [] poll.status = "valid" -> Returns("ok")
           [] poll.status = "pending" -> Returns("unexpected status")
           [] poll.status = "invalid" ->
                Returns(IF poll.problem THEN "problem" ELSE "unknown error")
           [] OTHER -> Returns("unknown status")]_<<pvars, vars>>

\* C33 witness: waitForOrderValid returned the error of an invalid order at
\* its second fetch, after a fetch with the status processing.
C33_Witness ==
  /\ poll.loop = "orderValid"
  /\ poll.pc = "done"
  /\ poll.result = "problem"
  /\ poll.status = "invalid"
  /\ poll.fetches = 2

\* C34: waitForAuthorizationValid returns success only when a fetched status
\* is valid; it waits and fetches again while the status is pending; it
\* returns an error as soon as a fetched status is invalid, deactivated,
\* expired, revoked or unknown.
C34_AuthorizationValid ==
  /\ []ReturnsOnlyOn("authorization", {"valid"}, {"pending"})
  /\ [][SwitchStep("authorization") =>
         CASE poll.status = "pending" -> WaitsToFetchAgain
           [] poll.status = "valid" -> Returns("ok")
           [] poll.status = "invalid" -> Returns("authorization failure")
           [] poll.status = "deactivated" -> Returns("authorization deactivated")
           [] poll.status = "expired" -> Returns("authorization expired")
           [] poll.status = "revoked" -> Returns("authorization revoked")
           [] OTHER -> Returns("unknown status")]_<<pvars, vars>>

\* C34 witness: waitForAuthorizationValid returned an error for the status
\* processing, which its switch does not know, at its second fetch.
C34_Witness ==
  /\ poll.loop = "authorization"
  /\ poll.pc = "done"
  /\ poll.result = "unknown status"
  /\ poll.status = "processing"
  /\ poll.fetches = 2

\* C35: waitForChallengeValid returns success only when a fetched status is
\* valid; it waits and fetches again while the status is pending or
\* processing; it returns an error as soon as a fetched status is invalid
\* (the challenge's error when present) or unknown.
C35_ChallengeValid ==
  /\ []ReturnsOnlyOn("challenge", {"valid"}, {"pending", "processing"})
  /\ [][SwitchStep("challenge") =>
         CASE poll.status \in {"pending", "processing"} -> WaitsToFetchAgain
           [] poll.status = "valid" -> Returns("ok")
           [] poll.status = "invalid" ->
                Returns(IF poll.problem THEN "problem" ELSE "unknown error")
           [] OTHER -> Returns("unknown status")]_<<pvars, vars>>

\* C35 witness: waitForChallengeValid returned the error of the challenge at
\* its second fetch, after a fetch with the status processing.
C35_Witness ==
  /\ poll.loop = "challenge"
  /\ poll.pc = "done"
  /\ poll.result = "problem"
  /\ poll.status = "invalid"
  /\ poll.problem
  /\ poll.fetches = 2

\* =========================================== the selection of a challenge

\* Challenges of an authorization.
MaxChallenges == 2

ChallengeTypes == {"http-01", "dns-01", "tls-alpn-01"}

\* The challenges the server offers: a type, a status, a token.
OfferedChallenges ==
  [type : ChallengeTypes, status : {"pending", "valid"}, token : {"t1"}]

ChallengeLists == UNION {[1..n -> OfferedChallenges] : n \in 0..MaxChallenges}

\* A nil *Challenge.
NoChallenge == [type |-> "", status |-> "", token |-> ""]

\* Authorization.findChallenge: the first challenge of the type, or nil.
findChallenge(chs, cType) ==
  IF \E i \in 1..Len(chs) : chs[i].type = cType
  THEN chs[CHOOSE i \in 1..Len(chs) :
             /\ chs[i].type = cType
             /\ \A j \in 1..(i - 1) : chs[j].type # cType]
  ELSE NoChallenge

\* A selection that takes the HTTP-01 challenge whether or not the client
\* has a responder.
selectAnyHTTP01(solver, chs) ==
  IF findChallenge(chs, "http-01") # NoChallenge
  THEN findChallenge(chs, "http-01")
  ELSE findChallenge(chs, "dns-01")

\* Client.selectAuthorizationChallenge; solver tells whether
\* c.httpChallengeSolver is not nil.
selectAuthorizationChallenge(solver, chs) ==
  IF solver /\ findChallenge(chs, "http-01") # NoChallenge
  THEN findChallenge(chs, "http-01")
  ELSE findChallenge(chs, "dns-01")

InitValidation ==
  /\ ResponseIdle
  /\ OrderIdle
  /\ AccountsIdle
  /\ RequestsIdle
  /\ RenewalIdle
  /\ LifecycleIdle
  /\ NoncesIdle
  /\ PollingIdle
  /\ SolverIdle
  /\ \E solver \in BOOLEAN, chs \in ChallengeLists :
       validation = [pc |-> "select", solver |-> solver, challenges |-> chs,
                     challenge |-> NoChallenge, tokens |-> {}, err |-> ""]

\* A step of validateAuthorization.
ValidationStep(rec) ==
  /\ validation' = rec
  /\ UNCHANGED otherThanValidation /\ UNCHANGED vars

\* validateAuthorization: the challenge is selected; without one the call
\* returns an error, with one that is valid it returns nil.
ValidationSelect ==
  /\ validation.pc = "select"
  /\ LET ch == selectAuthorizationChallenge(validation.solver,
                                            validation.challenges)
     IN ValidationStep(
          IF ch = NoChallenge
          THEN [validation EXCEPT !.pc = "done",
                  !.err = "no supported challenge available"]
          ELSE IF ch.status = "valid"
          THEN [validation EXCEPT !.pc = "done", !.challenge = ch]
          ELSE [validation EXCEPT !.pc = "setup", !.challenge = ch])

\* solveChallenge, setupChallenge of an HTTP-01 challenge: the token is
\* registered.
ValidationSetupHTTP01 ==
  /\ validation.pc = "setup"
  /\ validation.challenge.type = "http-01"
  /\ ValidationStep([validation EXCEPT !.pc = "solving",
        !.tokens = addToken(@, validation.challenge.token)])

\* solveChallenge, setupChallenge of a DNS-01 challenge: not implemented.
ValidationSetupDNS01 ==
  /\ validation.pc = "setup"
  /\ validation.challenge.type = "dns-01"
  /\ ValidationStep([validation EXCEPT !.pc = "done",
        !.err = "cannot solve challenge: not implemented yet"])

NextValidation ==
  \/ ValidationSelect
  \/ ValidationSetupHTTP01
  \/ ValidationSetupDNS01

SpecValidation == InitValidation /\ [][NextValidation]_<<cvars, vars>>

\* The authorization offers a challenge of the type.
Offers(cType) ==
  \E i \in 1..Len(validation.challenges) :
    validation.challenges[i].type = cType

\* C36: the selected challenge is the HTTP-01 challenge if and only if the
\* responder is enabled and the authorization offers one; otherwise the
\* DNS-01 challenge is selected when there is one; when neither applies the
\* call fails with "no supported challenge available" and no token is
\* registered. A token is only ever registered for a selected HTTP-01
\* challenge.
C36_Selection ==
  validation # <<>> /\ validation.pc # "select" =>
    LET http == validation.solver /\ Offers("http-01")
    IN /\ validation.challenge.type = "http-01" <=> http
       /\ (~http /\ Offers("dns-01")) => validation.challenge.type = "dns-01"
       /\ (~http /\ ~Offers("dns-01")) =>
            /\ validation.pc = "done"
            /\ validation.challenge = NoChallenge
            /\ validation.err = "no supported challenge available"
            /\ validation.tokens = {}
       /\ validation.challenge # NoChallenge =>
            \E i \in 1..Len(validation.challenges) :
              validation.challenge = validation.challenges[i]
       /\ validation.tokens # {} => validation.challenge.type = "http-01"

\* C36 witness: the client has no responder and the authorization offers
\* an HTTP-01 challenge and no DNS-01 challenge: the call failed and no
\* token is registered.
C36_Witness ==
  /\ validation # <<>>
  /\ validation.pc = "done"
  /\ ~validation.solver
  /\ Offers("http-01")
  /\ ~Offers("dns-01")
  /\ validation.err = "no supported challenge available"
  /\ validation.tokens = {}

\* ================================================ the status of a response

\* The status codes of the responses, at and around the limits of 2xx.
StatusCodes == {100, 199, 200, 201, 204, 299, 300, 301, 304, 400, 404, 500}

\* The body of a response: a JSON object, or a text that is not JSON.
Bodies == {"object", "text"}

\* resBody: nil, a *[]byte, a pointer to a value to decode into.
Destinations == {"nil", "bytes", "value"}

\* sendRequestWithNonce: status < 200 || status > 300.
FailureStatus(status) == status < 200 \/ status > 300

InitResponse ==
  /\ ValidationIdle
  /\ OrderIdle
  /\ AccountsIdle
  /\ RequestsIdle
  /\ RenewalIdle
  /\ LifecycleIdle
  /\ NoncesIdle
  /\ PollingIdle
  /\ SolverIdle
  /\ \E st \in StatusCodes, b \in Bodies, d \in Destinations :
       response = [pc |-> "received", status |-> st, body |-> b,
                   resBody |-> d, err |-> "", written |-> ""]

\* A step of sendRequestWithNonce after httpClient.Do.
ResponseStep(rec) ==
  /\ response' = rec
  /\ UNCHANGED otherThanResponse /\ UNCHANGED vars

\* io.ReadAll(res.Body) fails.
ResponseReadFail ==
  /\ response.pc = "received"
  /\ ResponseStep([response EXCEPT !.pc = "done",
                                   !.err = "cannot read response body"])

\* The body is read; a failure status returns the ProblemDetails the body
\* decodes to, or an error with the status and the body; otherwise the body
\* is copied or decoded into resBody.
ResponseHandle ==
  /\ response.pc = "received"
  /\ ResponseStep(
       IF FailureStatus(response.status)
       THEN [response EXCEPT !.pc = "done",
               !.err = IF response.body = "object" THEN "ProblemDetails"
                       ELSE "request failed with status"]
       ELSE IF response.resBody = "nil"
       THEN [response EXCEPT !.pc = "done"]
       ELSE IF response.resBody = "bytes"
       THEN [response EXCEPT !.pc = "done", !.written = "data"]
       ELSE IF response.body = "object"
       THEN [response EXCEPT !.pc = "done", !.written = "decoded"]
       ELSE [response EXCEPT !.pc = "done",
               !.err = "cannot decode response body"])

NextResponse ==
  \/ ResponseReadFail
  \/ ResponseHandle

SpecResponse == InitResponse /\ [][NextResponse]_<<hvars, vars>>

\* C37, as stated: a response is a success if and only if its status is
\* 2xx; every response with another status yields an error, the
\* ProblemDetails when the body decodes and an error with the status and the
\* body otherwise, and resBody is left unwritten.
C37_Original ==
  (response # <<>> /\ response.pc = "done"
     /\ response.err # "cannot read response body") =>
    IF response.status \in 200..299
    THEN response.err \in {"", "cannot decode response body"}
    ELSE /\ response.err = (IF response.body = "object" THEN "ProblemDetails"
                            ELSE "request failed with status")
         /\ response.written = ""

\* ======================================== claims on the lifecycle, third part

\* This step is the return of sendEvent.
SendEventReturns(w) ==
  workers[w].pc = "sendEvent" /\ workers'[w].emitted # workers[w].emitted

\* sendEvent returns because the consumer received the event, or with the
\* stop channel closed or ctx done and the event not received.
HandOff(w) ==
  SendEventReturns(w) =>
    \/ workers'[w].received = Append(workers[w].received, workers[w].pending)
    \/ /\ workers'[w].received = workers[w].received
       /\ stopChan = "closed" \/ workers[w].ctx = "done"

\* The wait for the renewal starts at the return of sendEvent only.
WaitAfterHandOff(w) ==
  (workers[w].pc # "wait" /\ workers'[w].pc = "wait") => SendEventReturns(w)

\* The worker that waits for the renewal went through the hand-off of the
\* event of its snapshot: the consumer has it as last event, or the send
\* was abandoned with the stop channel closed or ctx done.
HandedOff(w) ==
  LET r == workers[w]
      last == r.emitted[Len(r.emitted)]
  IN r.pc = "wait" =>
       /\ Len(r.emitted) > 0
       /\ last.ev = CertEvent(r.snap)
       /\ last.out = "delivered" =>
            /\ Len(r.received) > 0
            /\ r.received[Len(r.received)] = last.ev
       /\ last.out = "stop" => stopChan = "closed"
       /\ last.out = "ctx" => r.ctx = "done"

\* C38: after storing a certificate the worker stays in sendEvent until the
\* consumer receives the event, the stop channel is closed or ctx is done;
\* the wait for the renewal starts only at the return of sendEvent, and the
\* consumer never receives an event whose send was abandoned: it has exactly
\* the events whose send completed.
C38_HandOff ==
  /\ [](\A w \in Workers : HandedOff(w) /\ ReceivedInOrder(w))
  /\ [][\A w \in Workers : HandOff(w) /\ WaitAfterHandOff(w)]_vars

\* C38 witness: the send of the event of the loaded certificate was
\* abandoned because the stop channel was closed; the worker is at the wait
\* for the renewal and its consumer has received nothing.
C38_Witness ==
  \E w \in Workers :
    /\ workers[w].pc = "wait"
    /\ Len(workers[w].emitted) = 1
    /\ workers[w].emitted[1].out = "stop"
    /\ workers[w].emitted[1].ev.kind = "cert"
    /\ workers[w].received = <<>>

\* ================================================ claims on the renewal time

\* C39, as stated: for every certificate and every validity (0, 1, more than
\* one day) the renewal time computed by CertificateRenewalTime is not later
\* than the NotAfter of the leaf certificate.
C39_Original ==
  (renewal # <<>> /\ renewal.pc # "loaded") =>
    renewal.renewalTime <= renewal.notAfter

\* ================================================ claims on the waiter list

\* The channels in the waiter lists.
Listed(n) == SeqToSet(certificateWaiters[n])

\* The channels of a list are open and belong to calls for the name that are
\* in their select or have left it and not yet removed the channel.
ListedOpen ==
  \A n \in DOMAIN certificateWaiters :
    \A u \in Listed(n) :
      /\ waiters[u].closed = 0
      /\ waiters[u].pc \in {"select", "leave"}
      /\ waiters[u].name = n

\* A channel is closed at most once, by the call that returns after it made
\* the channel.
ClosedAtReturn ==
  \A u \in Waiters :
    /\ waiters[u].closed <= 1
    /\ waiters[u].closed = 1 => waiters[u].pc = "done"
    /\ (waiters[u].pc = "done" /\ ~waiters[u].viaMap) => waiters[u].closed = 1

\* The channels storeCertificate is about to send on are open.
SendsOnOpen ==
  \A w \in Workers :
    workers[w].pc = "storeSend" =>
      \A i \in workers[w].sendIdx..Len(workers[w].sendList) :
        waiters[workers[w].sendList[i]].closed = 0

\* The close of a channel comes after its removal from the list.
RemovedBeforeClose(u) ==
  waiters'[u].closed > waiters[u].closed =>
    \A n \in DOMAIN certificateWaiters : u \notin Listed(n)

\* C40: the waiter list of a name contains only open channels of
\* WaitForCertificate calls that have not returned; a returning call removes
\* its channel from the list before it closes it, storeCertificate never
\* sends on a closed channel, and each channel is closed exactly once.
C40_WaiterList ==
  /\ [](ListedOpen /\ ClosedAtReturn /\ SendsOnOpen)
  /\ [][\A u \in Waiters : RemovedBeforeClose(u)]_vars

\* C40 witness: a call that got the certificate through its channel has
\* returned and closed the channel, while the channel of another call that
\* left its select is still in the list.
C40_Witness ==
  \E u, u2 \in Waiters :
    /\ u # u2
    /\ waiters[u].pc = "done"
    /\ waiters[u].viaChan
    /\ waiters[u].closed = 1
    /\ waiters[u2].pc = "leave"
    /\ u2 \in Listed(waiters[u2].name)

====
